---- MODULE Spec2Model ----
(***************************************************************************)
(* Model of the operation compiler of oapi-codegen (pkg/codegen,           *)
(* operations.go): parameter style/explode resolution, operation-ID        *)
(* synthesis, response modelling and the assembly of operation             *)
(* definitions out of a parsed OpenAPI document.                           *)
(*                                                                         *)
(* Go strings that the code inspects character by character (paths,        *)
(* methods, operation IDs, status codes) are sequences of one-character    *)
(* strings; strings the code only compares (locations, styles) are TLA+    *)
(* strings.                                                                *)
(***************************************************************************)
EXTENDS Integers, Sequences, FiniteSets, TLC

VARIABLES
    idIn,      \* arguments of generateDefaultOperationID
    idOut,     \* its result, None before the call
    pd,        \* a ParameterDefinition (its Spec fields)
    pdStyle,   \* result of pd.Style(), None before the call
    pdExplode, \* result of pd.Explode(), None before the call
    pdFlags,   \* results of pd.IsJson(), IsPassThrough() and IsStyled(), None before the call
    respIn,    \* arguments of GenerateResponseDefinitions
    respOut,   \* its result, None before the call
    doc0,      \* the document as loaded
    doc,       \* the document object, with the operation IDs the runs wrote
    pc,        \* where OperationDefinitions stands
    mode,      \* the object the current run works on: first, same or fresh
    pathQ,     \* the sorted paths still to visit, the current one first
    opQ,       \* the sorted methods of the current path still to visit
    globalParams, \* the described parameters of the current path
    operations,   \* the operations assembled so far
    results,   \* what each finished run returned
    bodyIn,    \* arguments of GenerateBodyDefinitions
    bodyOut,   \* its result, None before the call
    mainIn,    \* the command line and the config file main runs with
    mainPc,    \* where main stands
    oldConfigStyle, \* main's *bool, nil until the style is decided
    styleSets, \* how many times oldConfigStyle was assigned
    styleRead  \* the value main read through oldConfigStyle, None before the read

idVars   == <<idIn, idOut>>
pdVars   == <<pd, pdStyle, pdExplode, pdFlags>>
respVars == <<respIn, respOut>>
docVars  == <<doc0, doc, pc, mode, pathQ, opQ, globalParams, operations, results>>
bodyVars == <<bodyIn, bodyOut>>
mainVars == <<mainIn, mainPc, oldConfigStyle, styleSets, styleRead>>
vars == <<idVars, pdVars, respVars, docVars, bodyVars, mainVars>>


None == [kind |-> "none"]
Idle == [kind |-> "idle"]

\* the state of a specification that compiles no document
DocIdle ==
    /\ doc0 = Idle /\ doc = Idle /\ pc = "off" /\ mode = "off"
    /\ pathQ = <<>> /\ opQ = <<>> /\ globalParams = <<>>
    /\ operations = <<>> /\ results = <<>>

BodyIdle == bodyIn = Idle /\ bodyOut = Idle

\* the state of a specification that does not run main
MainIdle ==
    /\ mainIn = Idle /\ mainPc = "off" /\ oldConfigStyle = Idle
    /\ styleSets = 0 /\ styleRead = Idle

(***************************************************************************)
(* Characters and strings                                                  *)
(***************************************************************************)
LowerSeq == <<"a","b","c","d","e","f","g","h","i","j","k","l","m",
              "n","o","p","q","r","s","t","u","v","w","x","y","z">>
UpperSeq == <<"A","B","C","D","E","F","G","H","I","J","K","L","M",
              "N","O","P","Q","R","S","T","U","V","W","X","Y","Z">>
DigitSeq == <<"0","1","2","3","4","5","6","7","8","9">>

SeqRange(s) == {s[i] : i \in 1..Len(s)}
LowerCh == SeqRange(LowerSeq)
UpperCh == SeqRange(UpperSeq)
DigitCh == SeqRange(DigitSeq)

IndexIn(s, c) == CHOOSE i \in 1..Len(s) : s[i] = c

\* unicode.ToUpper / unicode.ToLower on one character
ToUpperCh(c) == IF c \in LowerCh THEN UpperSeq[IndexIn(LowerSeq, c)] ELSE c
ToLowerCh(c) == IF c \in UpperCh THEN LowerSeq[IndexIn(UpperSeq, c)] ELSE c

\* strings.ToLower
ToLower(s) == [i \in 1..Len(s) |-> ToLowerCh(s[i])]

\* The word separators of ToCamelCase
Separators == {"-","#","@","!","$","&","=",".","+",":",";","_","~"," ",
               "(",")","{","}","[","]"}

RECURSIVE CamelFrom(_, _, _, _)
CamelFrom(s, i, capNext, n) ==
    IF i > Len(s) THEN n
    ELSE LET v == s[i]
             n2 == IF v \in UpperCh \/ v \in DigitCh THEN Append(n, v)
                   ELSE IF v \in LowerCh
                        THEN Append(n, IF capNext THEN ToUpperCh(v) ELSE v)
                        ELSE n
         IN CamelFrom(s, i + 1, v \in Separators, n2)

\* ToCamelCase: separators collapse, the letter after a separator (and the
\* first one) is upper-cased, characters that are no letter or digit go.
ToCamelCase(s) == CamelFrom(s, 1, TRUE, <<>>)

\* strings.Split(s, "/"): always at least one part
RECURSIVE SplitFrom(_, _, _, _)
SplitFrom(s, i, cur, acc) ==
    IF i > Len(s) THEN Append(acc, cur)
    ELSE IF s[i] = "/" THEN SplitFrom(s, i + 1, <<>>, Append(acc, cur))
         ELSE SplitFrom(s, i + 1, Append(cur, s[i]), acc)

Split(s) == SplitFrom(s, 1, <<>>, <<>>)

(***************************************************************************)
(* String literals                                                         *)
(***************************************************************************)
MethodGet    == <<"G","E","T">>
MethodPost   == <<"P","O","S","T">>
MethodPut    == <<"P","U","T">>
MethodDelete == <<"D","E","L","E","T","E">>
Empty        == <<>>
Dash         == <<"-">>
Slash        == <<"/">>
StrRead      == <<"R","e","a","d">>
StrCreate    == <<"C","r","e","a","t","e">>
StrUpdate    == <<"U","p","d","a","t","e">>
StrHealthz   == <<"h","e","a","l","t","h","z">>
StrHealthCheck == <<"H","e","a","l","t","h","-","C","h","e","c","k">>
StrList      == <<"-","L","i","s","t">>
StrBy        == <<"-","b","y","-">>
StrIdParam   == <<"{","i","d","}">>
StrPets      == <<"p","e","t","s">>
StrNParam    == <<"{","n","}">>
StrV         == <<"v">>

(***************************************************************************)
(* Operation-ID synthesis (operations.go, generateDefaultOperationID)      *)
(***************************************************************************)
isPathParam(part) ==
    IF Len(part) < 2 THEN FALSE
    ELSE part[1] = "{" /\ part[Len(part)] = "}"

getPathParamCount(parts) ==
    Cardinality({i \in 1..Len(parts) : Len(parts[i]) >= 2 /\ isPathParam(parts[i])})

\* parts is 1-based here: Go's index i is i+1
isSinglePathWithParams(parts) ==
    \A i \in 1..Len(parts) :
        /\ ~(i <= 2 /\ isPathParam(parts[i]))
        /\ ~(i > 2 /\ ~isPathParam(parts[i]))

\* the loops "for _, part := range ps { if part != "" { id = id + "-" + part } }"
RECURSIVE AppendParts(_, _, _)
AppendParts(id, ps, i) ==
    IF i > Len(ps) THEN id
    ELSE AppendParts(IF ps[i] # Empty THEN id \o Dash \o ps[i] ELSE id, ps, i + 1)

\* the switch on opName shared by the three verb-prefixed branches
VerbSwitch(opName, operationId, seg) ==
    IF opName = MethodGet THEN StrRead \o Dash \o seg
    ELSE IF opName = MethodPost THEN StrCreate \o Dash \o seg
    ELSE IF opName = MethodPut THEN StrUpdate \o Dash \o seg
    ELSE operationId \o Dash \o seg

Ok(id, rule) == [kind |-> "ok", id |-> id, rule |-> rule]
Err          == [kind |-> "err", id |-> Empty, rule |-> 0]
Panic(rule)  == [kind |-> "panic", id |-> Empty, rule |-> rule]

\* the loop with "part != "" && !isPathParam(part)" as its test
RECURSIVE AppendStaticParts(_, _, _)
AppendStaticParts(id, ps, i) ==
    IF i > Len(ps) THEN id
    ELSE AppendStaticParts(IF ps[i] # Empty /\ ~isPathParam(ps[i])
                           THEN id \o Dash \o ps[i] ELSE id, ps, i + 1)

MultiParamID_StaticOnly(operationId, parts) ==
    IF isSinglePathWithParams(parts)
    THEN Ok(ToCamelCase(operationId \o Dash \o parts[2]), 1)
    ELSE Ok(ToCamelCase(AppendStaticParts(operationId, parts, 1)), 2)

\* pathParamCount > 1
MultiParamID(operationId, parts) ==
    IF isSinglePathWithParams(parts)
    THEN Ok(ToCamelCase(operationId \o Dash \o parts[2]), 1)
    ELSE Ok(ToCamelCase(AppendParts(operationId, parts, 1)), 2)

SingleSegmentID_NoList(opName, operationId, parts, pathOpCount) ==
    IF opName = MethodGet
    THEN IF parts[2] = StrHealthz THEN Ok(ToCamelCase(StrHealthCheck), 3)
         ELSE Ok(ToCamelCase(StrRead \o Dash \o parts[2]), 3)
    ELSE Ok(ToCamelCase(VerbSwitch(opName, operationId, parts[2])), 3)

\* len(parts) == 2
SingleSegmentID(opName, operationId, parts, pathOpCount) ==
    IF opName = MethodGet
    THEN IF parts[2] = StrHealthz THEN Ok(ToCamelCase(StrHealthCheck), 3)
         ELSE IF pathOpCount > 1
              THEN Ok(ToCamelCase(StrRead \o Dash \o parts[2] \o StrList), 3)
              ELSE Ok(ToCamelCase(StrRead \o Dash \o parts[2]), 3)
    ELSE Ok(ToCamelCase(VerbSwitch(opName, operationId, parts[2])), 3)

ThirdParamID_NoIdExemption(opName, operationId, parts) ==
    LET base == VerbSwitch(opName, operationId, parts[2])
        rest == AppendParts(base, parts, 4)
    IN Ok(ToCamelCase(rest \o StrBy \o parts[3]), 4)

\* len(parts) >= 3 && isPathParam(parts[2])
ThirdParamID(opName, operationId, parts) ==
    LET base == VerbSwitch(opName, operationId, parts[2])
        rest == AppendParts(base, parts, 4)
        full == IF parts[3] # StrIdParam THEN rest \o StrBy \o parts[3] ELSE rest
    IN Ok(ToCamelCase(full), 4)

NoParamID_RawMethod(opName, operationId, parts) ==
    IF Len(parts) < 2 THEN Panic(5)
    ELSE Ok(ToCamelCase(AppendParts(operationId \o Dash \o parts[2], parts, 3)), 5)

\* pathParamCount == 0; parts[1] is read whatever the number of parts
NoParamID(opName, operationId, parts) ==
    IF Len(parts) < 2 THEN Panic(5)
    ELSE Ok(ToCamelCase(AppendParts(VerbSwitch(opName, operationId, parts[2]), parts, 3)), 5)

FallbackID_StaticOnly(operationId, parts) ==
    Ok(ToCamelCase(AppendStaticParts(operationId, parts, 1)), 6)

\* the final else
FallbackID(operationId, parts) ==
    Ok(ToCamelCase(AppendParts(operationId, parts, 1)), 6)

generateDefaultOperationID(opName, requestPath, pathOpCount) ==
    LET operationId == ToLower(opName)
        parts == Split(requestPath)
        pathParamCount == getPathParamCount(parts)
    IN IF opName = Empty THEN Err
       ELSE IF requestPath = Empty THEN Err
       ELSE IF pathParamCount > 1 THEN MultiParamID(operationId, parts)
       ELSE IF Len(parts) = 2
            THEN SingleSegmentID(opName, operationId, parts, pathOpCount)
       ELSE IF Len(parts) >= 3 /\ isPathParam(parts[3])
            THEN ThirdParamID(opName, operationId, parts)
       ELSE IF pathParamCount = 0 THEN NoParamID(opName, operationId, parts)
       ELSE FallbackID(operationId, parts)

(***************************************************************************)
(* Inputs of the operation-ID specification                                *)
(***************************************************************************)
MaxSegs == 3
MaxOps == 2

SegPool == {Empty, StrPets, StrHealthz, StrIdParam, StrNParam, StrV}
OpNames == {Empty, MethodGet, MethodPost, MethodPut, MethodDelete}

RECURSIVE JoinSegs(_, _)
JoinSegs(segs, i) ==
    IF i > Len(segs) THEN Empty
    ELSE (IF i > 1 THEN Slash ELSE Empty) \o segs[i] \o JoinSegs(segs, i + 1)

SegLists == UNION {[1..n -> SegPool] : n \in 1..MaxSegs}

\* "/a/b", "a/b" (no leading slash) and the empty path
RequestPaths ==
    {Empty} \cup {Slash \o JoinSegs(segs, 1) : segs \in SegLists}
            \cup {JoinSegs(segs, 1) : segs \in SegLists}

InitOpId ==
    /\ idIn \in [opName : OpNames, requestPath : RequestPaths, pathOpCount : 1..MaxOps]
    /\ idOut = None
    /\ pd = Idle /\ pdStyle = Idle /\ pdExplode = Idle /\ pdFlags = Idle
    /\ respIn = Idle /\ respOut = Idle
    /\ DocIdle
    /\ BodyIdle
    /\ MainIdle

CallGenerateDefaultOperationID ==
    /\ idOut.kind = "none"
    /\ idOut' = generateDefaultOperationID(idIn.opName, idIn.requestPath, idIn.pathOpCount)
    /\ UNCHANGED <<idIn, pdVars, respVars, docVars, bodyVars, mainVars>>

NextOpId == CallGenerateDefaultOperationID

SpecOpId == InitOpId /\ [][NextOpId]_vars

(***************************************************************************)
(* Properties of operation-ID synthesis                                    *)
(***************************************************************************)
IdParts == Split(idIn.requestPath)
IdCalled == idOut.kind # "none" /\ idIn.opName # Empty /\ idIn.requestPath # Empty

\* a segment of the form {...}
ParamSeg(seg) == Len(seg) >= 2 /\ Head(seg) = "{" /\ seg[Len(seg)] = "}"
NumParams(parts) == Cardinality({i \in DOMAIN parts : ParamSeg(parts[i])})

\* GET -> Read, POST -> Create, PUT -> Update, otherwise the lowercased method
Verb(op) ==
    CASE op = MethodGet -> StrRead
      [] op = MethodPost -> StrCreate
      [] op = MethodPut -> StrUpdate
      [] OTHER -> ToLower(op)

\* "-" + segment for every segment of segs
RECURSIVE DashAll(_)
DashAll(segs) ==
    IF segs = <<>> THEN Empty ELSE Dash \o Head(segs) \o DashAll(Tail(segs))

\* "-" + segment for every segment of segs that satisfies Keep
DashJoin(segs, Keep(_)) == DashAll(SelectSeq(segs, Keep))

NonEmptySeg(seg) == seg # Empty
StaticSeg(seg) == seg # Empty /\ ~ParamSeg(seg)
After(parts, k) == SubSeq(parts, k + 1, Len(parts))

IdIs(str) == idOut.kind = "ok" /\ idOut.id = ToCamelCase(str)
IdCase(op, path) == idOut.kind # "none" /\ idIn.opName = op /\ idIn.requestPath = path

\* C6: with at most one path parameter, at least three split parts and a
\* parameter as third part, the identifier is the camel-cased verb prefix +
\* "-" + parts[1], then the non-empty segments after the parameter, then
\* "-by-" + the parameter unless it is {id}; GET /pets/{id} gives ReadPets.
C6_ThirdParam ==
    /\ (IdCalled /\ Len(IdParts) >= 3 /\ NumParams(IdParts) <= 1 /\ ParamSeg(IdParts[3]))
         => IdIs(Verb(idIn.opName) \o Dash \o IdParts[2]
                 \o DashJoin(After(IdParts, 3), NonEmptySeg)
                 \o (IF IdParts[3] = StrIdParam THEN Empty ELSE StrBy \o IdParts[3]))
    /\ IdCase(MethodGet, Slash \o StrPets \o Slash \o StrIdParam)
         => idOut = Ok(<<"R","e","a","d","P","e","t","s">>, 4)

C6_Witness ==
    /\ IdCase(MethodGet, Slash \o StrPets \o Slash \o StrNParam \o Slash \o StrV)
    /\ idOut.id = <<"R","e","a","d","P","e","t","s","V","B","y","N">>

\* C7: for a path /seg (two split parts) the identifier is the camel-cased
\* Health-Check for GET /healthz, Read-seg-List for GET with several
\* operations on the path, Read-seg for GET with one, Create-seg for POST,
\* Update-seg for PUT, method-seg otherwise.
C7_SingleSegment ==
    /\ (IdCalled /\ Len(IdParts) = 2 /\ IdParts[1] = Empty)
         => IdIs(IF idIn.opName = MethodGet
                 THEN IF IdParts[2] = StrHealthz THEN StrHealthCheck
                      ELSE IF idIn.pathOpCount > 1
                           THEN StrRead \o Dash \o IdParts[2] \o StrList
                           ELSE StrRead \o Dash \o IdParts[2]
                 ELSE Verb(idIn.opName) \o Dash \o IdParts[2])
    /\ IdCase(MethodPost, Slash \o StrPets)
         => idOut.id = <<"C","r","e","a","t","e","P","e","t","s">>
    /\ IdCase(MethodGet, Slash \o StrHealthz)
         => idOut.id = <<"H","e","a","l","t","h","C","h","e","c","k">>

C7_Witness ==
    /\ IdCase(MethodGet, Slash \o StrPets)
    /\ idIn.pathOpCount > 1
    /\ idOut.id = <<"R","e","a","d","P","e","t","s","L","i","s","t">>

AllParamsAfterTwo(parts) ==
    /\ ~ParamSeg(parts[1]) /\ ~ParamSeg(parts[2])
    /\ \A i \in 3..Len(parts) : ParamSeg(parts[i])

\* C8 as stated: with more than one path parameter the identifier is the
\* lowercased method + the first static segment when every part after the
\* first two is a parameter, and otherwise the lowercased method + the
\* non-empty static segments only (parameter segments contribute nothing).
\* Stated for the paths of a document, which start with "/".
C8_StaticSegmentsOnly ==
    (IdCalled /\ NumParams(IdParts) > 1 /\ IdParts[1] = Empty)
      => IdIs(IF AllParamsAfterTwo(IdParts)
              THEN ToLower(idIn.opName) \o Dash \o IdParts[2]
              ELSE ToLower(idIn.opName) \o DashJoin(IdParts, StaticSeg))

\* C8 as amended: in the generic case every non-empty segment is appended,
\* parameter segments included.
C8_AllSegments ==
    (IdCalled /\ NumParams(IdParts) > 1)
      => IdIs(IF AllParamsAfterTwo(IdParts)
              THEN ToLower(idIn.opName) \o Dash \o IdParts[2]
              ELSE ToLower(idIn.opName) \o DashJoin(IdParts, NonEmptySeg))

C8_Witness ==
    /\ IdCase(MethodGet, Slash \o StrIdParam \o Slash \o StrPets \o Slash \o StrNParam)
    /\ idOut.id = <<"G","e","t","I","d","P","e","t","s","N">>

\* C9: with no path parameter and three or more split parts the identifier
\* is the camel-cased verb prefix + "-" + the first segment (parts[1]),
\* followed by the remaining non-empty segments; never a List suffix.
C9_NoParams ==
    (IdCalled /\ NumParams(IdParts) = 0 /\ Len(IdParts) >= 3)
      => IdIs(Verb(idIn.opName) \o Dash \o IdParts[2]
              \o DashJoin(After(IdParts, 2), NonEmptySeg))

C9_Witness ==
    /\ IdCase(MethodGet, Slash \o StrPets \o Slash \o StrV)
    /\ idIn.pathOpCount > 1
    /\ idOut.id = <<"R","e","a","d","P","e","t","s","V">>

\* the six rules of the decision tree, first match
FirstMatchRule(parts) ==
    CASE NumParams(parts) > 1 /\ AllParamsAfterTwo(parts) -> 1
      [] NumParams(parts) > 1 /\ ~AllParamsAfterTwo(parts) -> 2
      [] NumParams(parts) <= 1 /\ Len(parts) = 2 -> 3
      [] NumParams(parts) <= 1 /\ Len(parts) >= 3 /\ ParamSeg(parts[3]) -> 4
      [] NumParams(parts) = 0 /\ Len(parts) >= 3 -> 5
      [] OTHER -> 6

\* C10: with exactly one path parameter that is not the third split part
\* and at least three split parts, the identifier is the camel-cased
\* lowercased method followed by every non-empty segment, the parameter
\* included; and every identifier comes from the first matching rule.
C10_Fallback ==
    /\ (IdCalled /\ NumParams(IdParts) = 1 /\ Len(IdParts) >= 3 /\ ~ParamSeg(IdParts[3]))
         => /\ IdIs(ToLower(idIn.opName) \o DashJoin(IdParts, NonEmptySeg))
            /\ idOut.rule = 6
    /\ idOut.kind = "ok" => idOut.rule = FirstMatchRule(IdParts)

C10_Witness ==
    /\ IdCase(MethodGet, Slash \o StrNParam \o Slash \o StrPets)
    /\ idOut = Ok(<<"G","e","t","N","P","e","t","s">>, 6)

\* C26: generateDefaultOperationID returns an error for an empty method or
\* an empty path, and for every other method and path it returns an
\* identifier or an error; it never aborts on an out-of-range read of the
\* split path segments.
C26_Totality ==
    /\ (idOut.kind # "none" /\ (idIn.opName = Empty \/ idIn.requestPath = Empty))
         => idOut.kind = "err"
    /\ idOut.kind # "none" => idOut.kind \in {"ok", "err"}

(***************************************************************************)
(* Parameter style and explode (operations.go, ParameterDefinition)        *)
(***************************************************************************)
OkVal(v)  == [kind |-> "ok", val |-> v]
PanicVal  == [kind |-> "panic"]

\* *bool
NilPtr    == [nil |-> TRUE]
PtrTo(b)  == [nil |-> FALSE, val |-> b]

Style_HeaderForm(p) ==
    IF p.Style = ""
    THEN IF p.In = "path" THEN OkVal("simple")
         ELSE IF p.In \in {"query", "cookie", "header"} THEN OkVal("form")
         ELSE PanicVal
    ELSE OkVal(p.Style)

\* func (pd *ParameterDefinition) Style() string
Style(p) ==
    IF p.Style = ""
    THEN IF p.In \in {"path", "header"} THEN OkVal("simple")
         ELSE IF p.In \in {"query", "cookie"} THEN OkVal("form")
         ELSE PanicVal
    ELSE OkVal(p.Style)

Explode_IgnoresExplicit(p) ==
    IF p.In \in {"path", "header"} THEN OkVal(FALSE)
    ELSE IF p.In \in {"query", "cookie"} THEN OkVal(TRUE)
    ELSE PanicVal

\* func (pd *ParameterDefinition) Explode() bool
Explode(p) ==
    IF p.Explode.nil
    THEN IF p.In \in {"path", "header"} THEN OkVal(FALSE)
         ELSE IF p.In \in {"query", "cookie"} THEN OkVal(TRUE)
         ELSE PanicVal
    ELSE OkVal(p.Explode.val)

Locations == {"path", "query", "header", "cookie"}
\* locations of other description formats, which a document may carry
OtherLocations == {"body", "formData"}
Styles == {"", "simple", "form", "label", "matrix", "deepObject"}
ExplodePtrs == {NilPtr, PtrTo(TRUE), PtrTo(FALSE)}

\* media types
CtJson      == <<"a","p","p","l","i","c","a","t","i","o","n","/","j","s","o","n">>
CtText      == <<"t","e","x","t","/","p","l","a","i","n">>
CtForm      == <<"a","p","p","l","i","c","a","t","i","o","n","/","x","-","w","w","w","-","f","o","r","m","-","u","r","l","e","n","c","o","d","e","d">>
CtXml       == <<"a","p","p","l","i","c","a","t","i","o","n","/","x","m","l">>
CtVndJson   == <<"a","p","p","l","i","c","a","t","i","o","n","/","v","n","d",".","a","p","i","+","j","s","o","n">>
CtMultipart == <<"m","u","l","t","i","p","a","r","t","/","f","o","r","m","-","d","a","t","a">>
CtOctet     == <<"a","p","p","l","i","c","a","t","i","o","n","/","v","n","d",".","c","u","s","t","o","m","+","o","c","t","e","t","-","s","t","r","e","a","m">>
SfxJson     == <<"+","j","s","o","n">>
HasPrefix(s, pfx) == Len(s) >= Len(pfx) /\ SubSeq(s, 1, Len(pfx)) = pfx
HasSuffix(s, sfx) == Len(s) >= Len(sfx) /\ SubSeq(s, Len(s) - Len(sfx) + 1, Len(s)) = sfx
\* util.IsMediaTypeJson: application/json and the +json media types
IsMediaTypeJson(ct) == ct = CtJson \/ HasSuffix(ct, SfxJson)

\* the content of a parameter: up to MaxParamContents content types
MaxParamContents == 2
ParamContentTypes == {CtJson, CtVndJson, CtText}
ParamContents ==
    UNION {[cts -> {[Schema |-> NilPtr]}] :
              cts \in {c \in SUBSET ParamContentTypes : Cardinality(c) <= MaxParamContents}}
\* *openapi3.SchemaRef
SchemaPtrs == {NilPtr, PtrTo("string")}
NoFlags == [json |-> None, pass |-> None, styled |-> None]

IsJson_AnyCount(p) == \E k \in DOMAIN p.Content : IsMediaTypeJson(k)

\* func (pd *ParameterDefinition) IsJson() bool
IsJson(p) ==
    IF Cardinality(DOMAIN p.Content) = 1
    THEN \E k \in DOMAIN p.Content : IsMediaTypeJson(k)
    ELSE FALSE

IsPassThrough_AnySingle(p) == Cardinality(DOMAIN p.Content) >= 1

\* func (pd *ParameterDefinition) IsPassThrough() bool
IsPassThrough(p) ==
    IF Cardinality(DOMAIN p.Content) > 1 THEN TRUE
    ELSE IF Cardinality(DOMAIN p.Content) = 1 THEN ~IsJson(p)
    ELSE FALSE

\* func (pd *ParameterDefinition) IsStyled() bool
IsStyled(p) == ~p.Schema.nil

InitParam ==
    /\ pd \in [In : Locations \cup OtherLocations, Style : Styles, Explode : ExplodePtrs,
                Content : ParamContents, Schema : SchemaPtrs]
    /\ pdStyle = None /\ pdExplode = None
    /\ pdFlags = NoFlags
    /\ idIn = Idle /\ idOut = Idle
    /\ respIn = Idle /\ respOut = Idle
    /\ DocIdle
    /\ BodyIdle
    /\ MainIdle

CallStyle ==
    /\ pdStyle.kind = "none"
    /\ pdStyle' = Style(pd)
    /\ UNCHANGED <<pd, pdExplode, pdFlags, idVars, respVars, docVars, bodyVars, mainVars>>

CallExplode ==
    /\ pdExplode.kind = "none"
    /\ pdExplode' = Explode(pd)
    /\ UNCHANGED <<pd, pdStyle, pdFlags, idVars, respVars, docVars, bodyVars, mainVars>>

CallIsJson ==
    /\ pdFlags.json.kind = "none"
    /\ pdFlags' = [pdFlags EXCEPT !.json = OkVal(IsJson(pd))]
    /\ UNCHANGED <<pd, pdStyle, pdExplode, idVars, respVars, docVars, bodyVars, mainVars>>

CallIsPassThrough ==
    /\ pdFlags.pass.kind = "none"
    /\ pdFlags' = [pdFlags EXCEPT !.pass = OkVal(IsPassThrough(pd))]
    /\ UNCHANGED <<pd, pdStyle, pdExplode, idVars, respVars, docVars, bodyVars, mainVars>>

CallIsStyled ==
    /\ pdFlags.styled.kind = "none"
    /\ pdFlags' = [pdFlags EXCEPT !.styled = OkVal(IsStyled(pd))]
    /\ UNCHANGED <<pd, pdStyle, pdExplode, idVars, respVars, docVars, bodyVars, mainVars>>

NextParam == CallStyle \/ CallExplode \/ CallIsJson \/ CallIsPassThrough \/ CallIsStyled

SpecParam == InitParam /\ [][NextParam]_vars

(***************************************************************************)
(* Properties of style and explode                                         *)
(***************************************************************************)
StyleCalled == pdStyle.kind # "none"
ExplodeCalled == pdExplode.kind # "none"

\* C3: an omitted style resolves to simple for path and header, to form for
\* query and cookie; an omitted explode resolves to false for path and
\* header, to true for query and cookie.
C3_Defaults ==
    /\ (StyleCalled /\ pd.Style = "" /\ pd.In \in {"path", "header"})
         => pdStyle = OkVal("simple")
    /\ (StyleCalled /\ pd.Style = "" /\ pd.In \in {"query", "cookie"})
         => pdStyle = OkVal("form")
    /\ (ExplodeCalled /\ pd.Explode = NilPtr /\ pd.In \in {"path", "header"})
         => pdExplode = OkVal(FALSE)
    /\ (ExplodeCalled /\ pd.Explode = NilPtr /\ pd.In \in {"query", "cookie"})
         => pdExplode = OkVal(TRUE)

C3_Witness ==
    /\ pd.In = "header" /\ pd.Style = "" /\ pd.Explode = NilPtr
    /\ pdStyle = OkVal("simple") /\ pdExplode = OkVal(FALSE)

DefaultStyle(in) == IF in \in {"path", "header"} THEN "simple" ELSE "form"
DefaultExplode(in) == in \in {"query", "cookie"}

\* C4: at every location an explicit style is returned unchanged by Style()
\* and an explicit explode by Explode(); an explicit value for one leaves
\* the other at its location default.
C4_ExplicitOverride ==
    /\ (StyleCalled /\ pd.Style # "") => pdStyle = OkVal(pd.Style)
    /\ (ExplodeCalled /\ ~pd.Explode.nil) => pdExplode = OkVal(pd.Explode.val)
    /\ (ExplodeCalled /\ pd.Style # "" /\ pd.Explode.nil /\ pd.In \in Locations)
         => pdExplode = OkVal(DefaultExplode(pd.In))
    /\ (StyleCalled /\ ~pd.Explode.nil /\ pd.Style = "" /\ pd.In \in Locations)
         => pdStyle = OkVal(DefaultStyle(pd.In))

C4_Witness ==
    /\ pd.In = "query" /\ pd.Style = "deepObject" /\ pd.Explode = PtrTo(FALSE)
    /\ pdStyle = OkVal("deepObject") /\ pdExplode = OkVal(FALSE)

JsonCalled == pdFlags.json.kind # "none"
PassThroughCalled == pdFlags.pass.kind # "none"
StyledCalled == pdFlags.styled.kind # "none"
ContentCount == Cardinality(DOMAIN pd.Content)
SingleContent == CHOOSE k \in DOMAIN pd.Content : TRUE

\* C24 as stated: a parameter with no schema and exactly one content type is
\* pass-through and not styled, whatever that content type is.
C24_AnySingleContentIsPassThrough ==
    (pd.Schema = NilPtr /\ ContentCount = 1)
        => /\ PassThroughCalled => pdFlags.pass = OkVal(TRUE)
           /\ StyledCalled => pdFlags.styled = OkVal(FALSE)

\* C24: a parameter with no schema and exactly one content type is not
\* styled; it is pass-through exactly when that content type is not a JSON
\* media type, and with a JSON media type it is JSON-like instead.
C24_SingleContentClassification ==
    (pd.Schema = NilPtr /\ ContentCount = 1)
        => /\ StyledCalled => pdFlags.styled = OkVal(FALSE)
           /\ PassThroughCalled => pdFlags.pass = OkVal(~IsMediaTypeJson(SingleContent))
           /\ JsonCalled => pdFlags.json = OkVal(IsMediaTypeJson(SingleContent))

C24_Witness ==
    /\ pd.Schema = NilPtr /\ DOMAIN pd.Content = {CtText}
    /\ pdFlags.pass = OkVal(TRUE) /\ pdFlags.styled = OkVal(FALSE)
    /\ pdFlags.json = OkVal(FALSE)

\* C25: IsJson is true exactly when the parameter declares exactly one
\* content type and that type is a JSON media type; IsJson and IsPassThrough
\* are never both true; more than one content type is always pass-through.
C25_JsonClassification ==
    /\ JsonCalled =>
          pdFlags.json = OkVal(ContentCount = 1 /\ IsMediaTypeJson(SingleContent))
    /\ (JsonCalled /\ PassThroughCalled) =>
          ~(pdFlags.json = OkVal(TRUE) /\ pdFlags.pass = OkVal(TRUE))
    /\ (PassThroughCalled /\ ContentCount > 1) => pdFlags.pass = OkVal(TRUE)

C25_Witness ==
    /\ DOMAIN pd.Content = {CtJson, CtVndJson} /\ pd.Schema # NilPtr
    /\ pdFlags.json = OkVal(FALSE) /\ pdFlags.pass = OkVal(TRUE)

(***************************************************************************)
(* Sorted iteration of the document's maps                                 *)
(***************************************************************************)
\* the printable characters in byte order (without the quote and backslash)
AsciiSeq ==
    <<" ","!","#","$","%","&","(",")","*","+",",","-",".","/","0",
    "1","2","3","4","5","6","7","8","9",":",";","<","=",">","?","@",
    "A","B","C","D","E","F","G","H","I","J","K","L","M","N","O","P",
    "Q","R","S","T","U","V","W","X","Y","Z","[","]","^","_","a",
    "b","c","d","e","f","g","h","i","j","k","l","m","n","o","p","q",
    "r","s","t","u","v","w","x","y","z","{","|","}","~">>

Code == [c \in SeqRange(AsciiSeq) |-> IndexIn(AsciiSeq, c)]

\* the order < of Go strings: byte-wise lexicographic
StrLess(a, b) ==
    \E i \in 1..(Len(a) + 1) :
        /\ \A j \in 1..(i - 1) : j <= Len(b) /\ a[j] = b[j]
        /\ i <= Len(b)
        /\ (i > Len(a) \/ Code[a[i]] < Code[b[i]])

RECURSIVE AscKeys(_)
AscKeys(S) ==
    IF S = {} THEN <<>>
    ELSE LET m == CHOOSE x \in S : \A y \in S : x = y \/ StrLess(x, y)
         IN <<m>> \o AscKeys(S \ {m})

\* The number of keys of the largest map; a map-iteration seed ranks that
\* many positions.
MaxKeys == 3
Seeds == {q \in [1..MaxKeys -> 1..MaxKeys] : \A i, j \in 1..MaxKeys : q[i] = q[j] => i = j}

\* "for k := range m": the keys of m in an order the run time picks; seed
\* selects it, and every order of up to MaxKeys keys has a seed.
MapRange(m, seed) ==
    LET a == AscKeys(DOMAIN m)
        n == Len(a)
        At(j) == CHOOSE i \in 1..n : Cardinality({k \in 1..n : seed[k] < seed[i]}) = j - 1
    IN [j \in 1..n |-> a[At(j)]]

\* sort.Strings
RECURSIVE InsertSorted(_, _)
InsertSorted(s, x) ==
    IF s = <<>> THEN <<x>>
    ELSE IF StrLess(x, Head(s)) THEN <<x>> \o s
         ELSE <<Head(s)>> \o InsertSorted(Tail(s), x)

RECURSIVE SortStrings(_)
SortStrings(s) ==
    IF s = <<>> THEN <<>>
    ELSE InsertSorted(SortStrings(SubSeq(s, 1, Len(s) - 1)), s[Len(s)])

\* SortedPathsKeys, SortedOperationsKeys, SortedResponsesKeys,
\* SortedContentKeys, SortedHeadersKeys: the keys, collected by ranging over
\* the map, then sorted
SortedKeys(m, seed) == SortStrings(MapRange(m, seed))

(***************************************************************************)
(* Schemas and references                                                  *)
(***************************************************************************)
PfxMultipart == <<"m","u","l","t","i","p","a","r","t","/">>
TagJSON     == <<"J","S","O","N">>
TagFormdata == <<"F","o","r","m","d","a","t","a">>
TagMultipart == <<"M","u","l","t","i","p","a","r","t">>
TagText     == <<"T","e","x","t">>
StrResponse == <<"R","e","s","p","o","n","s","e">>
StrBody     == <<"B","o","d","y">>
StrParams   == <<"P","a","r","a","m","s">>
StrN        == <<"N">>



\* typeNamePrefix: an identifier that starts with a digit gets an N
typeNamePrefix(name) == IF name # Empty /\ Head(name) \in DigitCh THEN StrN ELSE Empty

SchemaNameToTypeName(name) == typeNamePrefix(name) \o ToCamelCase(name)

\* The references of the documents: two spellings of the same response
\* component, another component, a schema component, and one that no
\* component answers to.
RefNotFound  == "#/components/responses/not_found"
RefNotFound2 == "#/components/responses/notFound"
RefGone      == "#/components/responses/gone"
RefPet       == "#/components/schemas/pet"
RefLimit     == "#/components/parameters/limit"
RefDangling  == "#/components"
NoRef        == ""

IsGoTypeReference(ref) == ref # NoRef

\* RefPathToGoType: the component's name as a type name
RefPathToGoType(ref) ==
    CASE ref \in {RefNotFound, RefNotFound2} -> [err |-> FALSE, val |-> <<"N","o","t","F","o","u","n","d">>]
      [] ref = RefGone -> [err |-> FALSE, val |-> <<"G","o","n","e">>]
      [] ref = RefPet -> [err |-> FALSE, val |-> <<"P","e","t">>]
      [] ref = RefLimit -> [err |-> FALSE, val |-> <<"L","i","m","i","t">>]
      [] OTHER -> [err |-> TRUE, val |-> Empty]

\* schema nodes of a document
NodeString   == [Ref |-> NoRef, Kind |-> "string", Props |-> <<>>, AddProps |-> FALSE]
NodeObject   == [Ref |-> NoRef, Kind |-> "object", Props |-> <<"name", "tag">>, AddProps |-> FALSE]
NodeMap      == [Ref |-> NoRef, Kind |-> "object", Props |-> <<>>, AddProps |-> TRUE]
NodePet      == [Ref |-> RefPet, Kind |-> "object", Props |-> <<"name", "tag">>, AddProps |-> FALSE]
NodeBroken   == [Ref |-> NoRef, Kind |-> "unresolved", Props |-> <<>>, AddProps |-> FALSE]

Property(name) == [JsonFieldName |-> name, NeedsFormTag |-> FALSE]

\* GenStructFromSchema: the declaration text is a function of the properties
GenStructFromSchema(schema) == [decl |-> "struct", fields |-> schema.Properties]

\* GenerateGoSchema: the descriptor of a node, an error for a node that does
\* not resolve. The name hint only names the additional types.
GenerateGoSchema(node, path) ==
    IF node.Kind = "unresolved" THEN [err |-> TRUE]
    ELSE LET props == [i \in 1..Len(node.Props) |-> Property(node.Props[i])]
             base == [GoType |-> [decl |-> node.Kind, fields |-> <<>>],
                      RefType |-> Empty,
                      Properties |-> props,
                      HasAdditionalProperties |-> node.AddProps]
         IN [err |-> FALSE,
             val |-> IF IsGoTypeReference(node.Ref)
                     THEN [base EXCEPT !.GoType = [decl |-> node.Ref, fields |-> <<>>]]
                     ELSE IF node.Kind = "object"
                          THEN [base EXCEPT !.GoType = GenStructFromSchema(base)]
                          ELSE base]

EmptySchema == [GoType |-> [decl |-> "", fields |-> <<>>], RefType |-> Empty,
                Properties |-> <<>>, HasAdditionalProperties |-> FALSE]

(***************************************************************************)
(* Responses (operations.go, GenerateResponseDefinitions)                  *)
(***************************************************************************)
\* the switch on the content type of a response; Empty is the default case
ResponseTag(contentType) ==
    IF IsMediaTypeJson(contentType) THEN TagJSON
    ELSE IF contentType = CtForm THEN TagFormdata
    ELSE IF HasPrefix(contentType, PfxMultipart) THEN TagMultipart
    ELSE IF contentType = CtText THEN TagText
    ELSE Empty

Failed == [err |-> TRUE, val |-> <<>>]
Done(v) == [err |-> FALSE, val |-> v]

\* the loop over SortedContentKeys(response.Content)
RECURSIVE ResponseContents(_, _, _, _, _, _)
ResponseContents(operationID, statusCode, content, keys, i, acc) ==
    IF i > Len(keys) THEN Done(acc)
    ELSE LET contentType == keys[i]
             tag == ResponseTag(contentType)
             responseTypeName == operationID \o statusCode \o tag \o StrResponse
             g == GenerateGoSchema(content[contentType].Schema, <<responseTypeName>>)
         IN IF tag = Empty
            THEN ResponseContents(operationID, statusCode, content, keys, i + 1,
                     Append(acc, [ContentType |-> contentType, NameTag |-> Empty,
                                  Schema |-> EmptySchema]))
            ELSE IF g.err THEN Failed
            ELSE ResponseContents(operationID, statusCode, content, keys, i + 1,
                     Append(acc, [ContentType |-> contentType, NameTag |-> tag,
                                  Schema |-> g.val]))

ResponseHeaders_None(headers, keys, i, acc) == Done(<<>>)

\* the loop over SortedHeadersKeys(response.Headers)
RECURSIVE ResponseHeaders(_, _, _, _)
ResponseHeaders(headers, keys, i, acc) ==
    IF i > Len(keys) THEN Done(acc)
    ELSE LET headerName == keys[i]
             g == GenerateGoSchema(headers[headerName].Schema, <<>>)
         IN IF g.err THEN Failed
            ELSE ResponseHeaders(headers, keys, i + 1,
                     Append(acc, [Name |-> headerName,
                                  GoName |-> SchemaNameToTypeName(headerName),
                                  Schema |-> g.val]))

UseRef_Always(refType, refSet) == TRUE

\* "if _, ok := refSet[refType]; !ok": the first response of a type keeps it
UseRef(refType, refSet) == refType \notin refSet

Aliased_Bare(rd, refType, refSet) ==
    IF UseRef(refType, refSet)
    THEN [rd |-> [rd EXCEPT !.Ref = refType], refSet |-> refSet \cup {refType}]
    ELSE [rd |-> [rd EXCEPT !.Contents = <<>>, !.Headers = <<>>], refSet |-> refSet]

\* lines 893-896: the definition with the alias, and the type added to refSet,
\* when the type is not an alias yet; the definition as it is otherwise
Aliased(rd, refType, refSet) ==
    IF UseRef(refType, refSet)
    THEN [rd |-> [rd EXCEPT !.Ref = refType], refSet |-> refSet \cup {refType}]
    ELSE [rd |-> rd, refSet |-> refSet]

\* the loop over SortedResponsesKeys(responses); refSet is the set of the
\* type names already used as an alias
RECURSIVE ResponseLoop(_, _, _, _, _, _, _)
ResponseLoop(operationID, responses, keys, i, seed, defs, refSet) ==
    IF i > Len(keys) THEN Done(defs)
    ELSE LET statusCode == keys[i]
             responseOrRef == responses[statusCode]
         IN IF responseOrRef.nil
            THEN ResponseLoop(operationID, responses, keys, i + 1, seed, defs, refSet)
            ELSE LET response == responseOrRef.Value
                     contents == ResponseContents(operationID, statusCode, response.Content,
                                     SortedKeys(response.Content, seed), 1, <<>>)
                     headers == ResponseHeaders(response.Headers,
                                     SortedKeys(response.Headers, seed), 1, <<>>)
                     rd == [StatusCode |-> statusCode,
                            Contents |-> contents.val,
                            Headers |-> headers.val,
                            Description |-> IF response.Description.nil THEN Empty
                                            ELSE response.Description.val,
                            Ref |-> Empty]
                     refType == RefPathToGoType(responseOrRef.Ref)
                 IN IF contents.err \/ headers.err THEN Failed
                    ELSE IF ~IsGoTypeReference(responseOrRef.Ref)
                    THEN ResponseLoop(operationID, responses, keys, i + 1, seed,
                             Append(defs, rd), refSet)
                    ELSE IF refType.err THEN Failed
                    ELSE ResponseLoop(operationID, responses, keys, i + 1, seed,
                             Append(defs, Aliased(rd, refType.val, refSet).rd),
                             Aliased(rd, refType.val, refSet).refSet)

GenerateResponseDefinitions(operationID, responses, seed) ==
    ResponseLoop(operationID, responses, SortedKeys(responses, seed), 1, seed, <<>>, {})

(***************************************************************************)
(* Inputs of the response specification                                    *)
(***************************************************************************)
Code200     == <<"2","0","0">>
Code404     == <<"4","0","4">>
CodeDefault == <<"d","e","f","a","u","l","t">>
HdrLimit    == <<"X","-","L","i","m","i","t">>
HdrCursor   == <<"X","-","C","u","r","s","o","r">>
StrDesc     == <<"n","o","t"," ","f","o","u","n","d">>
OpFindPets  == <<"F","i","n","d","P","e","t","s">>

NilRef == [nil |-> TRUE]
MapOf(k, v) == [x \in {k} |-> v]
NoMap == <<>>
Media(node) == [Schema |-> node]

ResponseOf(ref, content, headers, desc) ==
    [nil |-> FALSE, Ref |-> ref,
     Value |-> [Description |-> desc, Content |-> content, Headers |-> headers]]

JsonOnly == MapOf(CtJson, Media(NodeObject))

ResponsePool ==
    { NilRef,
      ResponseOf(NoRef, JsonOnly, NoMap, NilPtr),
      ResponseOf(RefNotFound, JsonOnly, NoMap, PtrTo(StrDesc)),
      ResponseOf(RefNotFound2, JsonOnly, NoMap, PtrTo(StrDesc)),
      ResponseOf(RefGone, JsonOnly, NoMap, NilPtr),
      ResponseOf(RefDangling, JsonOnly, NoMap, NilPtr),
      ResponseOf(NoRef, (CtText :> Media(NodeString)) @@ (CtJson :> Media(NodePet)),
                 (HdrLimit :> Media(NodeString)) @@ (HdrCursor :> Media(NodeString)),
                 PtrTo(StrDesc)),
      ResponseOf(NoRef, MapOf(CtXml, Media(NodeObject)), NoMap, NilPtr),
      ResponseOf(NoRef, MapOf(CtJson, Media(NodeBroken)), NoMap, NilPtr) }

StatusCodes == {Code200, Code404, CodeDefault}

ResponseMaps == UNION {[codes -> ResponsePool] : codes \in SUBSET StatusCodes \ {{}}}

InitResp ==
    /\ respIn \in [operationID : {OpFindPets}, responses : ResponseMaps]
    /\ respOut = None
    /\ idIn = Idle /\ idOut = Idle
    /\ pd = Idle /\ pdStyle = Idle /\ pdExplode = Idle /\ pdFlags = Idle
    /\ DocIdle
    /\ BodyIdle
    /\ MainIdle

CallGenerateResponseDefinitions(seed) ==
    /\ respOut.kind = "none"
    /\ respOut' = [kind |-> "returned",
                   res |-> GenerateResponseDefinitions(respIn.operationID, respIn.responses, seed)]
    /\ UNCHANGED <<respIn, idVars, pdVars, docVars, bodyVars, mainVars>>

NextResp == \E seed \in Seeds : CallGenerateResponseDefinitions(seed)

SpecResp == InitResp /\ [][NextResp]_vars

(***************************************************************************)
(* Properties of the responses                                             *)
(***************************************************************************)
RespOk == respOut.kind = "returned" /\ ~respOut.res.err
RespDefs == respOut.res.val
\* the type a status code's response refers to, Empty without a reference
RefTypeOf(code) ==
    LET r == respIn.responses[code]
    IN IF r.nil \/ r.Ref = NoRef THEN Empty ELSE RefPathToGoType(r.Ref).val
DefOf(code) == CHOOSE i \in DOMAIN RespDefs : RespDefs[i].StatusCode = code
TypeNames == {RefTypeOf(c) : c \in DOMAIN respIn.responses} \ {Empty}

\* C2: for every predefined type name T at most one response definition has
\* Ref = T: the first response, in ascending status-code order, whose
\* reference resolves to T; every later response referencing T has no Ref.
C2_AliasUniqueness ==
    RespOk =>
      \A T \in TypeNames :
        LET users == {c \in DOMAIN respIn.responses : RefTypeOf(c) = T}
            first == CHOOSE c \in users : \A d \in users : c = d \/ StrLess(c, d)
        IN /\ Cardinality({i \in DOMAIN RespDefs : RespDefs[i].Ref = T}) = 1
           /\ RespDefs[DefOf(first)].Ref = T
           /\ \A c \in users \ {first} : RespDefs[DefOf(c)].Ref = Empty

C2_Witness ==
    /\ RespOk
    /\ DOMAIN respIn.responses = {Code200, CodeDefault}
    /\ respIn.responses[Code200].nil = FALSE /\ respIn.responses[Code200].Ref = RefNotFound2
    /\ respIn.responses[CodeDefault].nil = FALSE /\ respIn.responses[CodeDefault].Ref = RefNotFound
    /\ Len(RespDefs) = 2
    /\ RespDefs[1].StatusCode = Code200 /\ RespDefs[1].Ref = <<"N","o","t","F","o","u","n","d">>
    /\ RespDefs[2].StatusCode = CodeDefault /\ RespDefs[2].Ref = Empty

\* the status codes with a response, nil entries left out
Answered == {c \in DOMAIN respIn.responses : ~respIn.responses[c].nil}
DefsFor(code) == {i \in DOMAIN RespDefs : RespDefs[i].StatusCode = code}
Ascending(keys) == \A i, j \in DOMAIN keys : i < j => StrLess(keys[i], keys[j])
ContentTypesOf(rd) == [i \in DOMAIN rd.Contents |-> rd.Contents[i].ContentType]
HeaderNamesOf(rd) == [i \in DOMAIN rd.Headers |-> rd.Headers[i].Name]
\* the definition holds the contents and the headers its response declares
Complete(rd) ==
    LET response == respIn.responses[rd.StatusCode].Value
    IN /\ Len(rd.Contents) = Cardinality(DOMAIN response.Content)
       /\ SeqRange(ContentTypesOf(rd)) = DOMAIN response.Content
       /\ Ascending(ContentTypesOf(rd))
       /\ Len(rd.Headers) = Cardinality(DOMAIN response.Headers)
       /\ SeqRange(HeaderNamesOf(rd)) = DOMAIN response.Headers
       /\ Ascending(HeaderNamesOf(rd))

\* C22: one response definition per non-nil response, in ascending order of
\* the status code; in each, one content definition per declared content type
\* in ascending order of the content type and one header definition per
\* declared header in ascending order of the header name.
C22_ResponseStructure ==
    RespOk =>
        /\ Len(RespDefs) = Cardinality(Answered)
        /\ \A c \in Answered : Cardinality(DefsFor(c)) = 1
        /\ Ascending([i \in DOMAIN RespDefs |-> RespDefs[i].StatusCode])
        /\ \A i \in DOMAIN RespDefs : Complete(RespDefs[i])

\* a nil entry next to a response with two content types and two headers
C22_Witness ==
    /\ RespOk
    /\ \E c \in DOMAIN respIn.responses : respIn.responses[c].nil
    /\ \E i \in DOMAIN RespDefs :
          /\ ContentTypesOf(RespDefs[i]) = <<CtJson, CtText>>
          /\ HeaderNamesOf(RespDefs[i]) = <<HdrCursor, HdrLimit>>

\* the responses that refer to a type an earlier response refers to
Colliding ==
    {c \in Answered :
        /\ RefTypeOf(c) # Empty
        /\ \E d \in Answered : StrLess(d, c) /\ RefTypeOf(d) = RefTypeOf(c)}
\* nothing in the response fails on its own account
Sound(c) ==
    LET r == respIn.responses[c]
    IN /\ r.Ref # RefDangling
       /\ \A ct \in DOMAIN r.Value.Content :
             ResponseTag(ct) # Empty => r.Value.Content[ct].Schema.Kind # "unresolved"
       /\ \A h \in DOMAIN r.Value.Headers : r.Value.Headers[h].Schema.Kind # "unresolved"

\* C23: a response that refers to a type already used as an alias does not
\* make the call fail; it has its definition, with its status code, contents
\* and headers and without an alias.
C23_CollisionIsNoError ==
    /\ (respOut.kind = "returned" /\ \A c \in Answered : Sound(c)) => ~respOut.res.err
    /\ RespOk =>
          \A c \in Colliding :
              /\ Cardinality(DefsFor(c)) = 1
              /\ \A i \in DefsFor(c) : RespDefs[i].Ref = Empty /\ Complete(RespDefs[i])

\* three responses of one type: the second and the third collide
C23_Witness ==
    /\ RespOk
    /\ Colliding = {Code404, CodeDefault}
    /\ Len(RespDefs) = 3
    /\ RespDefs[1].Ref # Empty
    /\ Len(RespDefs[3].Contents) = 1

(***************************************************************************)
(* Parameters of an operation (operations.go, DescribeParameters)          *)
(***************************************************************************)
\* paramToGoType: the descriptor of the parameter's schema
paramToGoType(param, path) == GenerateGoSchema(param.Schema, path)

RECURSIVE DescribeLoop(_, _, _, _)
DescribeLoop(params, path, i, outParams) ==
    IF i > Len(params) THEN Done(outParams)
    ELSE LET paramOrRef == params[i]
             param == paramOrRef.Value
             goType == paramToGoType(param, Append(path, param.Name))
             refType == RefPathToGoType(paramOrRef.Ref)
             pdef(schema) == [ParamName |-> param.Name, In |-> param.In,
                              Required |-> param.Required, Spec |-> param,
                              Schema |-> schema]
         IN IF goType.err THEN Failed
            ELSE IF ~IsGoTypeReference(paramOrRef.Ref)
            THEN DescribeLoop(params, path, i + 1, Append(outParams, pdef(goType.val)))
            ELSE IF refType.err THEN Failed
            ELSE DescribeLoop(params, path, i + 1,
                     Append(outParams,
                         pdef([goType.val EXCEPT
                                 !.GoType = [decl |-> refType.val, fields |-> <<>>]])))

DescribeParameters(params, path) == DescribeLoop(params, path, 1, <<>>)

\* FilterParameterDefinitionByType
FilterParameterDefinitionByType(params, in) ==
    SelectSeq(params, LAMBDA q : q.In = in)

\* ParameterDefinitions.FindByName: the first parameter of that name
FindByName(params, name) ==
    IF \E i \in DOMAIN params : params[i].ParamName = name
    THEN [nil |-> FALSE,
          val |-> params[CHOOSE i \in DOMAIN params :
                            /\ params[i].ParamName = name
                            /\ \A j \in 1..(i - 1) : params[j].ParamName # name]]
    ELSE [nil |-> TRUE]

\* OrderedParamsFromUri: the parameter names of the path template, left to right
OrderedParamsFromUri(requestPath) ==
    LET segs == SelectSeq(Split(requestPath), isPathParam)
    IN [i \in 1..Len(segs) |-> SubSeq(segs[i], 2, Len(segs[i]) - 1)]

\* SortParamsByPath: the declared path parameters in the order of the path
\* template; an error when their names are not those of the template
SortParamsByPath(requestPath, in) ==
    LET names == OrderedParamsFromUri(requestPath)
    IN IF Len(names) # Len(in) THEN Failed
       ELSE IF \E i \in DOMAIN names : FindByName(in, names[i]).nil THEN Failed
       ELSE Done([i \in DOMAIN names |-> FindByName(in, names[i]).val])

(***************************************************************************)
(* Security (operations.go, DescribeSecurityDefinition)                    *)
(***************************************************************************)
RECURSIVE SecurityLoop(_, _, _, _)
SecurityLoop(securityRequirements, i, seed, outDefs) ==
    IF i > Len(securityRequirements) THEN outDefs
    ELSE LET sr == securityRequirements[i]
             keys == SortedKeys(sr, seed)
         IN SecurityLoop(securityRequirements, i + 1, seed,
                outDefs \o [j \in 1..Len(keys) |->
                               [ProviderName |-> keys[j], Scopes |-> sr[keys[j]]]])

DescribeSecurityDefinition(securityRequirements, seed) ==
    SecurityLoop(securityRequirements, 1, seed, <<>>)

(***************************************************************************)
(* Request bodies (operations.go, GenerateBodyDefinitions)                 *)
(***************************************************************************)
BodyTag_DefaultText(contentType) ==
    IF IsMediaTypeJson(contentType) THEN TagJSON
    ELSE IF HasPrefix(contentType, PfxMultipart) THEN TagMultipart
    ELSE IF contentType = CtForm THEN TagFormdata
    ELSE TagText

\* the switch on the content type of a body; Empty is the default case
BodyTag(contentType) ==
    IF IsMediaTypeJson(contentType) THEN TagJSON
    ELSE IF HasPrefix(contentType, PfxMultipart) THEN TagMultipart
    ELSE IF contentType = CtForm THEN TagFormdata
    ELSE IF contentType = CtText THEN TagText
    ELSE Empty

WithFormTags_Untagged(schema) == schema

\* the properties re-tagged and the declaration regenerated
WithFormTags(schema) ==
    LET tagged == [schema EXCEPT !.Properties =
                      [i \in DOMAIN schema.Properties |->
                          [schema.Properties[i] EXCEPT !.NeedsFormTag = TRUE]]]
    IN [tagged EXCEPT !.GoType = GenStructFromSchema(tagged)]

BodyResult(bodies, types) == [err |-> FALSE, bodies |-> bodies, types |-> types]
BodyFailed == [err |-> TRUE, bodies |-> <<>>, types |-> <<>>]

\* the loop over SortedContentKeys(body.Content)
RECURSIVE BodyLoop(_, _, _, _, _, _)
BodyLoop(operationID, body, keys, i, bodyDefinitions, typeDefinitions) ==
    IF i > Len(keys) THEN BodyResult(bodyDefinitions, typeDefinitions)
    ELSE LET contentType == keys[i]
             content == body.Content[contentType]
             tag == BodyTag(contentType)
             defaultBody == IsMediaTypeJson(contentType)
             bodyTypeName == operationID \o tag \o StrBody
             g == GenerateGoSchema(content.Schema, <<bodyTypeName>>)
             refType == RefPathToGoType(content.Schema.Ref)
             isRef == IsGoTypeReference(content.Schema.Ref)
             s1 == IF isRef THEN [g.val EXCEPT !.RefType = refType.val] ELSE g.val
             inline == s1.RefType = Empty
             s2 == IF inline /\ contentType = CtForm THEN WithFormTags(s1) ELSE s1
             bodySchema == IF inline THEN [s2 EXCEPT !.RefType = bodyTypeName] ELSE s2
             bd == [Required |-> body.Required, Schema |-> bodySchema, NameTag |-> tag,
                    ContentType |-> contentType, Default |-> defaultBody,
                    Encoding |-> content.Encoding]
         IN IF tag = Empty
            THEN BodyLoop(operationID, body, keys, i + 1,
                     Append(bodyDefinitions,
                         [Required |-> body.Required, Schema |-> EmptySchema,
                          NameTag |-> Empty, ContentType |-> contentType,
                          Default |-> FALSE, Encoding |-> <<>>]),
                     typeDefinitions)
            ELSE IF g.err THEN BodyFailed
            ELSE IF isRef /\ refType.err THEN BodyFailed
            ELSE BodyLoop(operationID, body, keys, i + 1,
                     Append(bodyDefinitions, bd),
                     IF inline
                     THEN Append(typeDefinitions, [TypeName |-> bodyTypeName, Schema |-> s2])
                     ELSE typeDefinitions)

\* sort.Slice(bodyDefinitions, by ContentType)
RECURSIVE SortBodies(_)
SortBodies(bodies) ==
    IF bodies = <<>> THEN <<>>
    ELSE LET rest == SortBodies(SubSeq(bodies, 1, Len(bodies) - 1))
             b == bodies[Len(bodies)]
             k == Cardinality({j \in DOMAIN rest : ~StrLess(b.ContentType, rest[j].ContentType)})
         IN SubSeq(rest, 1, k) \o <<b>> \o SubSeq(rest, k + 1, Len(rest))

GenerateBodyDefinitions(operationID, bodyOrRef, seed) ==
    IF bodyOrRef.nil THEN BodyResult(<<>>, <<>>)
    ELSE LET r == BodyLoop(operationID, bodyOrRef.Value,
                      SortedKeys(bodyOrRef.Value.Content, seed), 1, <<>>, <<>>)
         IN IF r.err THEN r ELSE BodyResult(SortBodies(r.bodies), r.types)

(***************************************************************************)
(* Types of an operation (operations.go, GenerateTypeDefsForOperation)     *)
(***************************************************************************)
StrUnderscore == <<"_">>

\* ParameterDefinition.GoName
GoName(param) == SchemaNameToTypeName(param.ParamName)

\* Schema.GetAdditionalTypeDefs: the nodes of the documents have no nested types
GetAdditionalTypeDefs(schema) == <<>>

\* Params: every parameter but the path parameters
Params(op) == op.QueryParams \o op.HeaderParams \o op.CookieParams
AllParams(op) == Params(op) \o op.PathParams

RECURSIVE ParamsTypesLoop(_, _, _, _, _)
ParamsTypesLoop(objectParams, typeName, i, typeDefs, properties) ==
    IF i > Len(objectParams) THEN [panic |-> FALSE, types |-> typeDefs, props |-> properties]
    ELSE LET param == objectParams[i]
             style == Style(param.Spec)
             propRefName == typeName \o StrUnderscore \o GoName(param)
             pSchema == IF param.Schema.HasAdditionalProperties
                        THEN [param.Schema EXCEPT !.RefType = propRefName]
                        ELSE param.Schema
             prop == [JsonFieldName |-> param.ParamName, Required |-> param.Required,
                      Schema |-> pSchema, NeedsFormTag |-> style = OkVal("form")]
         IN IF style.kind = "panic"
            THEN [panic |-> TRUE, types |-> <<>>, props |-> <<>>]
            ELSE ParamsTypesLoop(objectParams, typeName, i + 1,
                     IF param.Schema.HasAdditionalProperties
                     THEN Append(typeDefs, [TypeName |-> propRefName, Schema |-> param.Schema])
                     ELSE typeDefs,
                     Append(properties, prop))

\* GenerateParamsTypes: the object of the query, header and cookie parameters
GenerateParamsTypes(op) ==
    LET typeName == op.OperationId \o StrParams
        r == ParamsTypesLoop(Params(op), typeName, 1, <<>>, <<>>)
        s0 == [EmptySchema EXCEPT !.Properties = r.props]
        s == [s0 EXCEPT !.GoType = GenStructFromSchema(s0)]
    IN IF r.panic THEN r
       ELSE [panic |-> FALSE, types |-> Append(r.types, [TypeName |-> typeName, Schema |-> s])]

RECURSIVE AdditionalTypeDefs(_, _)
AdditionalTypeDefs(items, i) ==
    IF i > Len(items) THEN <<>>
    ELSE GetAdditionalTypeDefs(items[i].Schema) \o AdditionalTypeDefs(items, i + 1)

GenerateTypeDefsForOperation(op) ==
    LET pt == IF Len(Params(op)) # 0 THEN GenerateParamsTypes(op)
              ELSE [panic |-> FALSE, types |-> <<>>]
    IN IF pt.panic THEN pt
       ELSE [panic |-> FALSE,
             types |-> pt.types \o AdditionalTypeDefs(AllParams(op), 1)
                                \o AdditionalTypeDefs(op.Bodies, 1)]

(***************************************************************************)
(* Operations of a document (operations.go, OperationDefinitions)          *)
(***************************************************************************)
PathKeys_MapOrder(paths, seed) == MapRange(paths, seed)

\* SortedPathsKeys(swagger.Paths)
PathKeys(paths, seed) == SortedKeys(paths, seed)

OperationKeys_MapOrder(pathOps, seed) == MapRange(pathOps, seed)

\* SortedOperationsKeys(pathOps)
OperationKeys(pathOps, seed) == SortedKeys(pathOps, seed)

\* the operation ID of the operation: synthesized when the document has
\* none, camel-cased otherwise
AssignOperationID(op, opName, requestPath, pathOpCount) ==
    IF op.OperationID = Empty
    THEN generateDefaultOperationID(opName, requestPath, pathOpCount)
    ELSE Ok(ToCamelCase(op.OperationID), 0)

SecurityOf_NonEmpty(d, op, seed) ==
    IF ~op.Security.nil /\ op.Security.val # <<>>
    THEN DescribeSecurityDefinition(op.Security.val, seed)
    ELSE DescribeSecurityDefinition(d.Security, seed)

\* lines 571-580: the security of the operation when the field is there,
\* that of the document otherwise
SecurityOf(d, op, seed) ==
    IF ~op.Security.nil
    THEN DescribeSecurityDefinition(op.Security.val, seed)
    ELSE DescribeSecurityDefinition(d.Security, seed)

\* The OperationDefinition of lines 552-584, before its parameter types are
\* appended.
OperationOf(d, op, opName, requestPath, operationID, allParams, pathParams, body, resp, seed) ==
    [PathParams |-> pathParams,
     HeaderParams |-> FilterParameterDefinitionByType(allParams, "header"),
     QueryParams |-> FilterParameterDefinitionByType(allParams, "query"),
     CookieParams |-> FilterParameterDefinitionByType(allParams, "cookie"),
     OperationId |-> ToCamelCase(operationID),
     Method |-> opName,
     Path |-> requestPath,
     Bodies |-> body.bodies,
     Responses |-> resp,
     TypeDefinitions |-> body.types,
     SecurityDefinitions |-> SecurityOf(d, op, seed),
     BodyRequired |-> IF op.RequestBody.nil THEN FALSE
                      ELSE op.RequestBody.Value.Required]

\* lines 586-589: the parameter types are appended and the operation is kept
WithTypeDefinitions(operationID, opDef, extra) ==
    IF extra.panic THEN [kind |-> "panic", id |-> operationID]
    ELSE [kind |-> "ok", id |-> operationID,
          opDef |-> [opDef EXCEPT !.TypeDefinitions = @ \o extra.types]]

\* lines 525-589, given what the generators returned: any error ends the run
Assemble(d, op, opName, requestPath, operationID, allParams, localErr, pathParams, body, resp, seed) ==
    IF localErr \/ pathParams.err \/ body.err \/ resp.err
    THEN [kind |-> "err", id |-> operationID]
    ELSE WithTypeDefinitions(operationID,
             OperationOf(d, op, opName, requestPath, operationID, allParams,
                         pathParams.val, body, resp.val, seed),
             GenerateTypeDefsForOperation(
                 OperationOf(d, op, opName, requestPath, operationID, allParams,
                             pathParams.val, body, resp.val, seed)))

MergeParams_LocalFirst(globalDefs, localDefs) == localDefs \o globalDefs

\* line 531: allParams := append(globalParams, localParams...)
MergeParams(globalDefs, localDefs) == globalDefs \o localDefs

OrderedPathParams_Declared(requestPath, allParams) ==
    Done(FilterParameterDefinitionByType(allParams, "path"))

\* lines 536-537: the path parameters, in the order of the path template
OrderedPathParams(requestPath, allParams) ==
    SortParamsByPath(requestPath, FilterParameterDefinitionByType(allParams, "path"))

\* lines 531-547: the parameters of the path and of the operation together,
\* the path parameters in the order of the path, the bodies, the responses
WithParameters(d, op, opName, requestPath, operationID, global, localParams, seed) ==
    Assemble(d, op, opName, requestPath, operationID,
             MergeParams(global, localParams.val), localParams.err,
             OrderedPathParams(requestPath, MergeParams(global, localParams.val)),
             GenerateBodyDefinitions(operationID, op.RequestBody, seed),
             GenerateResponseDefinitions(operationID, op.Responses, seed),
             seed)

\* lines 513-524, given the ID: a failed synthesis ends the run, a type name
\* gets its prefix, the operation's own parameters are described
WithOperationID(d, op, opName, requestPath, global, gen, seed) ==
    IF gen.kind = "panic" THEN [kind |-> "panic", id |-> op.OperationID]
    ELSE IF gen.kind = "err" THEN [kind |-> "err", id |-> Empty]
    ELSE WithParameters(d, op, opName, requestPath,
             typeNamePrefix(gen.id) \o gen.id, global,
             DescribeParameters(op.Parameters,
                 <<typeNamePrefix(gen.id) \o gen.id \o StrParams>>),
             seed)

\* The body of the loop over the operations of a path. id is what the step
\* leaves in op.OperationID.
OperationStep(d, requestPath, opName, global, seed) ==
    WithOperationID(d, d.Paths[requestPath].Ops[opName], opName, requestPath, global,
        AssignOperationID(d.Paths[requestPath].Ops[opName], opName, requestPath,
                          Cardinality(DOMAIN d.Paths[requestPath].Ops)),
        seed)

\* what a run returns: the operations and a nil error, or nil and an error
Returned(ops) == [kind |-> "ok", ops |-> ops]
ReturnedError == [kind |-> "err", ops |-> <<>>]
Aborted == [kind |-> "panic", ops |-> <<>>]

MaxRuns == 2

\* OperationDefinitions is entered
Begin(seed) ==
    /\ pc = "idle"
    /\ pathQ' = PathKeys(doc.Paths, seed)
    /\ operations' = <<>>
    /\ opQ' = <<>>
    /\ globalParams' = <<>>
    /\ pc' = "path"
    /\ UNCHANGED <<doc0, doc, mode, results, idVars, pdVars, respVars, bodyVars, mainVars>>

\* the head of the loop over the paths: the shared parameters
EnterPath(seed) ==
    /\ pc = "path"
    /\ pathQ # <<>>
    /\ LET pathItem == doc.Paths[Head(pathQ)]
           global == DescribeParameters(pathItem.Parameters, <<>>)
           keys == OperationKeys(pathItem.Ops, seed)
       IN IF global.err
          THEN /\ results' = Append(results, ReturnedError)
               /\ pc' = "done"
               /\ UNCHANGED <<pathQ, opQ, globalParams>>
          ELSE /\ globalParams' = global.val
               /\ opQ' = keys
               /\ pc' = IF keys = <<>> THEN "path" ELSE "op"
               /\ pathQ' = IF keys = <<>> THEN Tail(pathQ) ELSE pathQ
               /\ UNCHANGED results
    /\ UNCHANGED <<doc0, doc, mode, operations, idVars, pdVars, respVars, bodyVars, mainVars>>

Keep_SkipFailed(requestPath, opName, r) ==
    /\ doc' = [doc EXCEPT !.Paths[requestPath].Ops[opName].OperationID = r.id]
    /\ operations' = IF r.kind = "ok" THEN Append(operations, r.opDef) ELSE operations
    /\ opQ' = Tail(opQ)
    /\ pathQ' = IF Tail(opQ) = <<>> THEN Tail(pathQ) ELSE pathQ
    /\ pc' = IF Tail(opQ) = <<>> THEN "path" ELSE "op"
    /\ UNCHANGED results

\* what the loop does with the outcome r of the step for operation opName
Keep(requestPath, opName, r) ==
    /\ doc' = [doc EXCEPT !.Paths[requestPath].Ops[opName].OperationID = r.id]
    /\ IF r.kind = "ok"
       THEN /\ operations' = Append(operations, r.opDef)
            /\ opQ' = Tail(opQ)
            /\ pathQ' = IF Tail(opQ) = <<>> THEN Tail(pathQ) ELSE pathQ
            /\ pc' = IF Tail(opQ) = <<>> THEN "path" ELSE "op"
            /\ UNCHANGED results
       ELSE /\ results' = Append(results,
                                 IF r.kind = "err" THEN ReturnedError ELSE Aborted)
            /\ pc' = IF r.kind = "err" THEN "done" ELSE "aborted"
            /\ UNCHANGED <<operations, opQ, pathQ>>

\* one operation of the current path
ProcessOperation(seed) ==
    /\ pc = "op"
    /\ Keep(Head(pathQ), Head(opQ),
            OperationStep(doc, Head(pathQ), Head(opQ), globalParams, seed))
    /\ UNCHANGED <<doc0, mode, globalParams, idVars, pdVars, respVars, bodyVars, mainVars>>

\* every path is done: return operations, nil
Return ==
    /\ pc = "path"
    /\ pathQ = <<>>
    /\ results' = Append(results, Returned(operations))
    /\ pc' = "done"
    /\ UNCHANGED <<doc0, doc, mode, pathQ, opQ, globalParams, operations,
                   idVars, pdVars, respVars, bodyVars, mainVars>>

\* the caller compiles the same document object again
RunAgain ==
    /\ pc = "done"
    /\ Len(results) < MaxRuns
    /\ pc' = "idle"
    /\ mode' = "same"
    /\ UNCHANGED <<doc0, doc, pathQ, opQ, globalParams, operations, results,
                   idVars, pdVars, respVars, bodyVars, mainVars>>

\* the caller loads the document again and compiles the new object
RunReloaded ==
    /\ pc = "done"
    /\ Len(results) < MaxRuns
    /\ pc' = "idle"
    /\ mode' = "fresh"
    /\ doc' = doc0
    /\ UNCHANGED <<doc0, pathQ, opQ, globalParams, operations, results,
                   idVars, pdVars, respVars, bodyVars, mainVars>>

Next ==
    \/ \E seed \in Seeds : Begin(seed)
    \/ \E seed \in Seeds : EnterPath(seed)
    \/ \E seed \in Seeds : ProcessOperation(seed)
    \/ Return
    \/ RunAgain
    \/ RunReloaded

(***************************************************************************)
(* Documents                                                               *)
(***************************************************************************)
PathPets    == <<"/","p","e","t","s">>
PathCat     == <<"/","c","a","t","/","{","c","a","t","e","g","o","r","y","}","/","p","e","t","/","{","i","d","}">>
NameCategory == <<"c","a","t","e","g","o","r","y">>
PathPet     == <<"/","p","e","t","s","/","{","i","d","}">>
NameId      == <<"i","d">>
NameLimit   == <<"l","i","m","i","t">>
NameTrace   == <<"X","-","T","r","a","c","e">>
NamePayload == <<"p","a","y","l","o","a","d">>
NameFilter  == <<"f","i","l","t","e","r">>
IdFindPets  == <<"f","i","n","d","_","p","e","t","s">>
IdFirst     == <<"1","s","t">>
KeyApi      == <<"a","p","i","K","e","y">>
KeyOauth    == <<"o","a","u","t","h">>
ScopeRead   == <<"r","e","a","d">>

Parameter(ref, name, in, node) ==
    [Ref |-> ref,
     Value |-> [Name |-> name, In |-> in, Required |-> in = "path", Style |-> "",
                Explode |-> NilPtr, Schema |-> node]]

ParamId      == Parameter(NoRef, NameId, "path", NodeString)
ParamCategory == Parameter(NoRef, NameCategory, "path", NodeString)
\* a query parameter named as the shared one, with a schema of its own
ParamLimitLocal == Parameter(NoRef, NameLimit, "query", NodeObject)
ParamLimit   == Parameter(RefLimit, NameLimit, "query", NodeString)
ParamTrace   == Parameter(NoRef, NameTrace, "header", NodeString)
ParamFilter  == Parameter(NoRef, NameFilter, "query", NodeMap)
ParamBroken  == Parameter(NoRef, NameFilter, "query", NodeBroken)
\* a parameter at a location that is none of path, query, header, cookie
ParamPayload == Parameter(NoRef, NamePayload, "body", NodeObject)

BodyMedia(node) == [Schema |-> node, Encoding |-> <<>>]
BodyOf(required, content) == [nil |-> FALSE, Value |-> [Required |-> required, Content |-> content]]

OkResponses == MapOf(Code200, ResponseOf(NoRef, JsonOnly, NoMap, NilPtr))
SharedRefResponses ==
    (Code200 :> ResponseOf(RefNotFound2, JsonOnly, NoMap, NilPtr))
    @@ (CodeDefault :> ResponseOf(RefNotFound, JsonOnly, NoMap, PtrTo(StrDesc)))

BaseOp == [OperationID |-> Empty, Parameters |-> <<>>, RequestBody |-> NilRef,
           Responses |-> OkResponses, Security |-> NilPtr]

\* the operations of the two-path documents
SmallOpPool ==
    { BaseOp,
      [BaseOp EXCEPT !.OperationID = IdFindPets],
      [BaseOp EXCEPT !.Parameters = <<ParamLimit>>],
      [BaseOp EXCEPT !.Parameters = <<ParamPayload>>] }

OpPool ==
    SmallOpPool \cup
    { [BaseOp EXCEPT !.OperationID = IdFirst],
      [BaseOp EXCEPT !.Parameters = <<ParamBroken>>],
      [BaseOp EXCEPT !.Parameters = <<ParamFilter, ParamTrace>>],
      [BaseOp EXCEPT !.Parameters = <<ParamId>>],
      [BaseOp EXCEPT !.RequestBody =
          BodyOf(TRUE, (CtText :> BodyMedia(NodeString)) @@ (CtJson :> BodyMedia(NodeObject)))],
      [BaseOp EXCEPT !.RequestBody = BodyOf(FALSE, MapOf(CtForm, BodyMedia(NodeObject)))],
      [BaseOp EXCEPT !.RequestBody =
          BodyOf(TRUE, (CtJson :> BodyMedia(NodeObject)) @@ (CtVndJson :> BodyMedia(NodeObject)))],
      [BaseOp EXCEPT !.RequestBody = BodyOf(TRUE, MapOf(CtJson, BodyMedia(NodeBroken)))],
      [BaseOp EXCEPT !.Parameters = <<ParamLimitLocal>>],
      [BaseOp EXCEPT !.Responses =
          MapOf(Code200, ResponseOf(RefDangling, JsonOnly, NoMap, NilPtr))],
      [BaseOp EXCEPT !.Responses = SharedRefResponses],
      [BaseOp EXCEPT !.Security = PtrTo(<<>>)],
      [BaseOp EXCEPT !.Security =
          PtrTo(<<(KeyOauth :> <<ScopeRead>>) @@ (KeyApi :> <<>>)>>)] }

\* the operation maps of a path: one operation of pool under GET or POST, or
\* one of pool under GET with one of postPool under POST
OpMaps(pool, postPool) ==
    {MapOf(m, o) : m \in {MethodGet, MethodPost}, o \in pool}
    \cup {(MethodGet :> g) @@ (MethodPost :> o) : g \in pool, o \in postPool}

PathItems(paramLists, pool, postPool) ==
    {[Parameters |-> ps, Ops |-> ops] : ps \in paramLists, ops \in OpMaps(pool, postPool)}

PetsParams == {<<>>, <<ParamLimit>>, <<ParamPayload>>}
PetParams  == {<<ParamId>>, <<>>, <<ParamId, ParamPayload>>}

Document(paths) == [Paths |-> paths, Security |-> <<MapOf(KeyApi, <<>>)>>]

\* the operations under POST next to one under GET: one of them does not compile
PostOpPool == SmallOpPool \cup {[BaseOp EXCEPT !.Parameters = <<ParamBroken>>]}

OnePathDocuments ==
    {Document(MapOf(PathPets, item)) : item \in PathItems(PetsParams, OpPool, PostOpPool)}
    \cup {Document(MapOf(PathPet, item)) : item \in PathItems(PetParams, OpPool, PostOpPool)}

\* the second path without its parameter does not compile
TwoPathDocuments ==
    {Document((PathPets :> a) @@ (PathPet :> b)) :
        a \in PathItems({<<>>}, SmallOpPool, {BaseOp}),
        b \in PathItems({<<ParamId>>, <<>>}, SmallOpPool, {BaseOp})}

\* the declarations of the two parameters of the path, shared and local
CatParams == {<<>>, <<ParamId>>, <<ParamCategory>>, <<ParamId, ParamCategory>>,
              <<ParamCategory, ParamId>>, <<ParamLimit, ParamId>>}

CatDocuments ==
    {Document(MapOf(PathCat,
                    [Parameters |-> ps,
                     Ops |-> MapOf(MethodGet, [BaseOp EXCEPT !.Parameters = qs])])) :
        ps \in CatParams, qs \in CatParams}

Documents == OnePathDocuments \cup TwoPathDocuments \cup CatDocuments

Init ==
    /\ doc0 \in Documents
    /\ doc = doc0
    /\ pc = "idle"
    /\ mode = "first"
    /\ pathQ = <<>> /\ opQ = <<>> /\ globalParams = <<>>
    /\ operations = <<>> /\ results = <<>>
    /\ idIn = Idle /\ idOut = Idle
    /\ pd = Idle /\ pdStyle = Idle /\ pdExplode = Idle /\ pdFlags = Idle
    /\ respIn = Idle /\ respOut = Idle
    /\ BodyIdle
    /\ MainIdle

Spec == Init /\ [][Next]_vars

(***************************************************************************)
(* Properties of OperationDefinitions                                      *)
(***************************************************************************)
RunOver == pc \in {"done", "aborted"}
LastResult == results[Len(results)]

\* the parameters a document declares, at path level and at operation level
DeclaredParameters(d) ==
    UNION {SeqRange(d.Paths[p].Parameters)
           \cup UNION {SeqRange(d.Paths[p].Ops[m].Parameters) : m \in DOMAIN d.Paths[p].Ops}
           : p \in DOMAIN d.Paths}

DeclaresUnsupportedLocation(d) ==
    \E p \in DeclaredParameters(d) : p.Value.In \notin Locations

C5_UnsupportedLocationIsError ==
    (RunOver /\ DeclaresUnsupportedLocation(doc0)) => LastResult = ReturnedError

\* the operations a finished run returned: pairs of run and index
ReturnedOps == UNION {{<<r, k>> : k \in DOMAIN results[r].ops} : r \in DOMAIN results}
OpAt(rk) == results[rk[1]].ops[rk[2]]
\* the operation of the document behind a returned one
SourceOp(o) == doc0.Paths[o.Path].Ops[o.Method]
\* the parameters declared for it: those of the path, then its own
DeclaredFor(o) == doc0.Paths[o.Path].Parameters \o SourceOp(o).Parameters
DeclaredAt(o, in) == SelectSeq(DeclaredFor(o), LAMBDA q : q.Value.In = in)
SpecsOf(defs) == [i \in DOMAIN defs |-> defs[i].Spec]
ValuesOf(decls) == [i \in DOMAIN decls |-> decls[i].Value]
NamesOf(defs) == [i \in DOMAIN defs |-> defs[i].ParamName]
\* the position of the segment {name} in the path template
SegmentOf(path, name) ==
    CHOOSE i \in DOMAIN Split(path) : Split(path)[i] = <<"{">> \o name \o <<"}">>

\* C11: the PathParams of every returned operation are the declared path
\* parameters, those of the path and of the operation together, in the
\* left-to-right order of their names in the path template; declared
\* [id, category] on /cat/{category}/pet/{id} gives [category, id].
C11_PathParamOrder ==
    \A rk \in ReturnedOps :
        LET o == OpAt(rk)
            declared == DeclaredAt(o, "path")
        IN /\ Len(o.PathParams) = Len(declared)
           /\ SeqRange(SpecsOf(o.PathParams)) = SeqRange(ValuesOf(declared))
           /\ \A i, j \in DOMAIN o.PathParams :
                 i < j => SegmentOf(o.Path, o.PathParams[i].ParamName)
                              < SegmentOf(o.Path, o.PathParams[j].ParamName)
           /\ o.Path = PathCat => NamesOf(o.PathParams) = <<NameCategory, NameId>>

\* id declared for the path and category for the operation
C11_Witness ==
    \E rk \in ReturnedOps :
        /\ OpAt(rk).Path = PathCat
        /\ doc0.Paths[PathCat].Parameters = <<ParamId>>
        /\ SourceOp(OpAt(rk)).Parameters = <<ParamCategory>>
        /\ NamesOf(OpAt(rk).PathParams) = <<NameCategory, NameId>>

\* the providers and scopes of a list of security requirements
Required(reqs) == UNION {{<<k, reqs[i][k]>> : k \in DOMAIN reqs[i]} : i \in DOMAIN reqs}
Provided(defs) == {<<defs[i].ProviderName, defs[i].Scopes>> : i \in DOMAIN defs}

\* C12: the SecurityDefinitions of an operation come from the operation's own
\* security field when the field is present, an empty field giving an empty
\* list, and from the document's security requirements when it is absent.
C12_SecurityOverride ==
    \A rk \in ReturnedOps :
        LET o == OpAt(rk)
            field == SourceOp(o).Security
            reqs == IF field.nil THEN doc0.Security ELSE field.val
        IN /\ Provided(o.SecurityDefinitions) = Required(reqs)
           /\ Len(o.SecurityDefinitions) = Cardinality(Required(reqs))
           /\ (~field.nil /\ field.val = <<>>) => o.SecurityDefinitions = <<>>

\* an operation with a present, empty security field in a document that
\* requires a provider
C12_Witness ==
    \E rk \in ReturnedOps :
        /\ SourceOp(OpAt(rk)).Security = PtrTo(<<>>)
        /\ doc0.Security # <<>>
        /\ OpAt(rk).SecurityDefinitions = <<>>

\* What makes a step fail in the documents: a parameter whose schema does not
\* resolve, path parameters that are not those of the template, a body of a
\* recognized family or a response that does not resolve.
Unresolved(node) == node.Kind = "unresolved" \/ node.Ref = RefDangling
BadParams(params) == \E i \in DOMAIN params : Unresolved(params[i].Value.Schema)
TemplateNames(path) ==
    {n \in {NameId, NameCategory, NameLimit} :
        \E i \in DOMAIN Split(path) : Split(path)[i] = <<"{">> \o n \o <<"}">>}
BadPathParams(d, path, m) ==
    LET declared == SelectSeq(d.Paths[path].Parameters \o d.Paths[path].Ops[m].Parameters,
                              LAMBDA q : q.Value.In = "path")
    IN \/ Len(declared) # Cardinality(TemplateNames(path))
       \/ {declared[i].Value.Name : i \in DOMAIN declared} # TemplateNames(path)
BadBody(body) ==
    /\ ~body.nil
    /\ \E ct \in DOMAIN body.Value.Content :
          /\ IsMediaTypeJson(ct) \/ HasPrefix(ct, PfxMultipart) \/ ct \in {CtForm, CtText}
          /\ Unresolved(body.Value.Content[ct].Schema)
BadResponses(responses) ==
    \E code \in DOMAIN responses :
        /\ ~responses[code].nil
        /\ responses[code].Ref = RefDangling
PathFails(d, path) == BadParams(d.Paths[path].Parameters)
OpFails(d, path, m) ==
    \/ BadParams(d.Paths[path].Ops[m].Parameters)
    \/ BadPathParams(d, path, m)
    \/ BadBody(d.Paths[path].Ops[m].RequestBody)
    \/ BadResponses(d.Paths[path].Ops[m].Responses)
DocFails(d) ==
    \E path \in DOMAIN d.Paths :
        PathFails(d, path) \/ \E m \in DOMAIN d.Paths[path].Ops : OpFails(d, path, m)
\* the loop reaches the operation m of path: nothing fails before it
Reached(d, path, m) ==
    /\ \A p \in DOMAIN d.Paths :
          (p = path \/ StrLess(p, path)) => ~PathFails(d, p)
    /\ \A p \in DOMAIN d.Paths : \A n \in DOMAIN d.Paths[p].Ops :
          (StrLess(p, path) \/ (p = path /\ StrLess(n, m))) => ~OpFails(d, p, n)

\* C17: a run in which a step fails returns an error and no operation,
\* however many operations it had assembled, and a run returns an error only
\* then; no operation after the failing one is processed: the run writes the
\* operation ID of no operation it does not reach.
C17_FailFast ==
    /\ RunOver =>
          /\ DocFails(doc0) <=> LastResult.kind = "err"
          /\ LastResult.kind = "err" => LastResult.ops = <<>>
    /\ mode = "first" =>
          \A path \in DOMAIN doc0.Paths : \A m \in DOMAIN doc0.Paths[path].Ops :
              doc.Paths[path].Ops[m].OperationID # doc0.Paths[path].Ops[m].OperationID
                  => Reached(doc0, path, m)

\* the second path fails after two operations of the first were assembled,
\* and its own second operation is left untouched
C17_Witness ==
    /\ pc = "done"
    /\ mode = "first"
    /\ LastResult = [kind |-> "err", ops |-> <<>>]
    /\ Len(operations) = 2
    /\ DOMAIN doc0.Paths = {PathPets, PathPet}
    /\ DOMAIN doc0.Paths[PathPet].Ops = {MethodGet, MethodPost}
    /\ doc.Paths[PathPet].Ops[MethodPost].OperationID = Empty

\* C18: the query, header and cookie parameters of an operation are the
\* declared ones of that location, those of the path before those of the
\* operation, each in declaration order; with a shared and a local parameter
\* of one name both are in the list and FindByName gives the shared one.
C18_MergeOrder ==
    \A rk \in ReturnedOps :
        LET o == OpAt(rk)
            shared == doc0.Paths[o.Path].Parameters
        IN /\ SpecsOf(o.QueryParams) = ValuesOf(DeclaredAt(o, "query"))
           /\ SpecsOf(o.HeaderParams) = ValuesOf(DeclaredAt(o, "header"))
           /\ SpecsOf(o.CookieParams) = ValuesOf(DeclaredAt(o, "cookie"))
           /\ \A i \in DOMAIN shared :
                 shared[i].Value.In = "query" =>
                     /\ ~FindByName(o.QueryParams, shared[i].Value.Name).nil
                     /\ FindByName(o.QueryParams, shared[i].Value.Name).val.Spec
                            = shared[i].Value

\* limit declared for the path and, with another schema, for the operation
C18_Witness ==
    \E rk \in ReturnedOps :
        /\ doc0.Paths[OpAt(rk).Path].Parameters = <<ParamLimit>>
        /\ SourceOp(OpAt(rk)).Parameters = <<ParamLimitLocal>>
        /\ Len(OpAt(rk).QueryParams) = 2
        /\ FindByName(OpAt(rk).QueryParams, NameLimit).val.Spec = ParamLimit.Value

\* the type definitions of a run: pairs of operation and index
TypeDefsOf(r) ==
    UNION {{<<k, i>> : i \in DOMAIN results[r].ops[k].TypeDefinitions} :
              k \in DOMAIN results[r].ops}
TypeNameAt(r, ki) == results[r].ops[ki[1]].TypeDefinitions[ki[2]].TypeName
DistinctOperationIds(r) ==
    \A k, l \in DOMAIN results[r].ops :
        k # l => results[r].ops[k].OperationId # results[r].ops[l].OperationId

\* C19: over the operations of a document with distinct operation IDs, no two
\* type definitions have the same TypeName.
C19_TypeNameUniqueness ==
    \A r \in DOMAIN results :
        DistinctOperationIds(r) =>
            \A a, b \in TypeDefsOf(r) : a # b => TypeNameAt(r, a) # TypeNameAt(r, b)

\* the (path, method) pairs of a document
PathMethods(d) == UNION {{<<p, m>> : m \in DOMAIN d.Paths[p].Ops} : p \in DOMAIN d.Paths}
PairOf(o) == <<o.Path, o.Method>>
PairLess(a, b) == StrLess(a[1], b[1]) \/ (a[1] = b[1] /\ StrLess(a[2], b[2]))

\* C21: the list a run returns has one operation for each (path, method) pair
\* of the document, in ascending order of the path and, within a path, of the
\* method, whatever order the maps were ranged over.
C21_OperationOrder ==
    \A r \in DOMAIN results :
        results[r].kind = "ok" =>
            LET ops == results[r].ops
            IN /\ Len(ops) = Cardinality(PathMethods(doc0))
               /\ {PairOf(ops[k]) : k \in DOMAIN ops} = PathMethods(doc0)
               /\ \A k, l \in DOMAIN ops : k < l => PairLess(PairOf(ops[k]), PairOf(ops[l]))

\* two paths with two methods each
C21_Witness ==
    /\ RunOver
    /\ LastResult.kind = "ok"
    /\ Len(LastResult.ops) = 4
    /\ PairOf(LastResult.ops[1]) = <<PathPets, MethodGet>>
    /\ PairOf(LastResult.ops[2]) = <<PathPets, MethodPost>>
    /\ PairOf(LastResult.ops[3]) = <<PathPet, MethodGet>>
    /\ PairOf(LastResult.ops[4]) = <<PathPet, MethodPost>>

\* C27: over a document whose operations omit their operation identifiers,
\* the identifiers assigned to two different (path, method) pairs are
\* different; GET on /pets (its only operation) and GET on /pets/{id} do not
\* receive the same OperationId.
C27_OperationIdUniqueness ==
    \A r \in DOMAIN results :
        results[r].kind = "ok" =>
            \A k, l \in DOMAIN results[r].ops :
                LET a == results[r].ops[k]
                    b == results[r].ops[l]
                IN (/\ PairOf(a) # PairOf(b)
                    /\ SourceOp(a).OperationID = Empty
                    /\ SourceOp(b).OperationID = Empty)
                       => a.OperationId # b.OperationId

(***************************************************************************)
(* GenerateBodyDefinitions on its own                                      *)
(***************************************************************************)
StrWith == <<"W","i","t","h">>

\* RequestBodyDefinition.Suffix
Suffix_Always(r) == StrWith \o r.NameTag \o StrBody

Suffix(r) == IF r.Default THEN Empty ELSE StrWith \o r.NameTag \o StrBody

\* RequestBodyDefinition.IsSupported
IsSupported(r) == r.NameTag # Empty

\* RequestBodyDefinition.CustomType
CustomType(r) == r.Schema.RefType = Empty

OpAddPet    == <<"A","d","d","P","e","t">>

\* a schema that refers to a component the document does not have
NodeDangling == [Ref |-> RefDangling, Kind |-> "object", Props |-> <<>>, AddProps |-> FALSE]

MaxContents == 2

BodyContentTypes == {CtJson, CtVndJson, CtText, CtForm, CtMultipart, CtOctet}
BodySchemas == {NodeObject, NodePet, NodeBroken, NodeDangling}

\* the content maps of a body: up to MaxContents content types, each with a schema
BodyContents ==
    UNION {[cts -> {BodyMedia(n) : n \in BodySchemas}] :
              cts \in {c \in SUBSET BodyContentTypes : Cardinality(c) \in 1..MaxContents}}

RequestBodies == {NilRef} \cup {BodyOf(req, c) : req \in BOOLEAN, c \in BodyContents}

InitBody ==
    /\ bodyIn \in [operationID : {OpAddPet}, bodyOrRef : RequestBodies]
    /\ bodyOut = None
    /\ idIn = Idle /\ idOut = Idle
    /\ pd = Idle /\ pdStyle = Idle /\ pdExplode = Idle /\ pdFlags = Idle
    /\ respIn = Idle /\ respOut = Idle
    /\ DocIdle
    /\ MainIdle

CallGenerateBodyDefinitions(seed) ==
    /\ bodyOut.kind = "none"
    /\ bodyOut' = [kind |-> "returned",
                   res |-> GenerateBodyDefinitions(bodyIn.operationID, bodyIn.bodyOrRef, seed)]
    /\ UNCHANGED <<bodyIn, idVars, pdVars, respVars, docVars, mainVars>>

NextBody == \E seed \in Seeds : CallGenerateBodyDefinitions(seed)

SpecBody == InitBody /\ [][NextBody]_vars

\* the call returned without an error
BodyOk == bodyOut.kind = "returned" /\ ~bodyOut.res.err
BodyDefs == bodyOut.res.bodies
BodyTypes == bodyOut.res.types
\* the declared content: none for a nil body
Declared == IF bodyIn.bodyOrRef.nil THEN <<>> ELSE bodyIn.bodyOrRef.Value.Content
DeclaredTypes == DOMAIN Declared
JsonFamily(ct) == ct = CtJson \/ HasSuffix(ct, SfxJson)
Recognized(ct) ==
    \/ JsonFamily(ct)
    \/ HasPrefix(ct, PfxMultipart)
    \/ ct \in {CtForm, CtText}
DefaultDefs == {i \in DOMAIN BodyDefs : BodyDefs[i].Default}

\* C13: a body that declares a content type has exactly one default body
\* definition, a JSON-family one when the body declares such a content type.
C13_ExactlyOneDefault ==
    (BodyOk /\ DeclaredTypes # {}) =>
        /\ Cardinality(DefaultDefs) = 1
        /\ \A i \in DefaultDefs :
              (\E ct \in DeclaredTypes : JsonFamily(ct)) => JsonFamily(BodyDefs[i].ContentType)

\* the body definitions of a declared content type
DefsOf(ct) == {i \in DOMAIN BodyDefs : BodyDefs[i].ContentType = ct}
\* the tag of a recognized family
FamilyTag(ct) ==
    CASE JsonFamily(ct) -> TagJSON
      [] HasPrefix(ct, PfxMultipart) -> TagMultipart
      [] ct = CtForm -> TagFormdata
      [] ct = CtText -> TagText
      [] OTHER -> Empty
BodyTypeName(ct) == bodyIn.operationID \o FamilyTag(ct) \o StrBody
TypesNamed(name) == {k \in DOMAIN BodyTypes : BodyTypes[k].TypeName = name}
Resolvable(node) == node.Kind # "unresolved" /\ node.Ref # RefDangling
Tagged(schema) == \A k \in DOMAIN schema.Properties : schema.Properties[k].NeedsFormTag
Untagged(schema) == \A k \in DOMAIN schema.Properties : ~schema.Properties[k].NeedsFormTag

\* C14: a declared content type of no recognized family gets one body
\* definition with that content type, an empty NameTag and an empty schema,
\* unsupported, and no type definition; its schema is not resolved, so it
\* cannot make the call fail; a body of such content types only returns no
\* type definition.
C14_UnclassifiedContent ==
    /\ BodyOk =>
          /\ \A ct \in DeclaredTypes : ~Recognized(ct) =>
                /\ Cardinality(DefsOf(ct)) = 1
                /\ \A i \in DefsOf(ct) :
                      /\ BodyDefs[i].NameTag = Empty
                      /\ BodyDefs[i].Schema = EmptySchema
                      /\ ~IsSupported(BodyDefs[i])
                /\ TypesNamed(BodyTypeName(ct)) = {}
          /\ Len(BodyTypes) <= Cardinality({ct \in DeclaredTypes : Recognized(ct)})
          /\ (\A ct \in DeclaredTypes : ~Recognized(ct)) => BodyTypes = <<>>
    /\ (/\ bodyOut.kind = "returned"
        /\ \A ct \in DeclaredTypes : Recognized(ct) => Resolvable(Declared[ct].Schema))
       => ~bodyOut.res.err

\* an unclassified content type with a schema that does not resolve, next to
\* a JSON one
C14_Witness ==
    /\ BodyOk
    /\ DeclaredTypes = {CtOctet, CtJson}
    /\ Declared[CtOctet].Schema = NodeBroken
    /\ Len(BodyTypes) = 1

\* C15: one body definition per declared content type, in ascending order of
\* the content type; the suffix of a definition is empty exactly when it is
\* the default one and is With<tag>Body otherwise; application/json with
\* text/plain gives the JSON definition, default and unsuffixed, then the
\* plain-text one with the suffix WithTextBody.
C15_VariantsAndSuffixes ==
    BodyOk =>
        /\ Len(BodyDefs) = Cardinality(DeclaredTypes)
        /\ \A ct \in DeclaredTypes : Cardinality(DefsOf(ct)) = 1
        /\ \A i, j \in DOMAIN BodyDefs :
              i < j => StrLess(BodyDefs[i].ContentType, BodyDefs[j].ContentType)
        /\ \A i \in DOMAIN BodyDefs :
              /\ Suffix(BodyDefs[i]) = Empty <=> BodyDefs[i].Default
              /\ ~BodyDefs[i].Default =>
                    Suffix(BodyDefs[i]) = StrWith \o FamilyTag(BodyDefs[i].ContentType) \o StrBody
        /\ DeclaredTypes = {CtJson, CtText} =>
              /\ BodyDefs[1].ContentType = CtJson
              /\ BodyDefs[1].Default
              /\ Suffix(BodyDefs[1]) = Empty
              /\ BodyDefs[2].ContentType = CtText
              /\ Suffix(BodyDefs[2]) = <<"W","i","t","h","T","e","x","t","B","o","d","y">>

C15_Witness ==
    /\ BodyOk
    /\ DeclaredTypes = {CtJson, CtText}
    /\ Len(BodyDefs) = 2

\* C16: an inline form-encoded body has every top-level property tagged for
\* form serialization, in the body definition and in its type definition,
\* and the declaration is the one regenerated from the tagged properties; a
\* form-encoded body that references a predefined type, and a body of any
\* other content family, has no property tagged.
C16_FormTagging ==
    BodyOk =>
        \A i \in DOMAIN BodyDefs :
            LET b == BodyDefs[i]
                ct == b.ContentType
            IN Recognized(ct) =>
                  IF ct = CtForm /\ Declared[ct].Schema.Ref = NoRef
                  THEN /\ Tagged(b.Schema)
                       /\ b.Schema.GoType = GenStructFromSchema(b.Schema)
                       /\ \A k \in TypesNamed(BodyTypeName(ct)) :
                             /\ Tagged(BodyTypes[k].Schema)
                             /\ BodyTypes[k].Schema.GoType = GenStructFromSchema(BodyTypes[k].Schema)
                       /\ TypesNamed(BodyTypeName(ct)) # {}
                  ELSE /\ Untagged(b.Schema)
                       /\ \A k \in TypesNamed(BodyTypeName(ct)) : Untagged(BodyTypes[k].Schema)

\* an inline form-encoded body with two properties, next to an inline JSON body
C16_Witness ==
    /\ BodyOk
    /\ DeclaredTypes = {CtForm, CtJson}
    /\ Declared[CtForm].Schema = NodeObject
    /\ Declared[CtJson].Schema = NodeObject
    /\ \E i \in DOMAIN BodyDefs :
          BodyDefs[i].ContentType = CtForm /\ Len(BodyDefs[i].Schema.Properties) = 2

\* C20: a body definition of a recognized family has a non-empty RefType: the
\* name of the predefined type its schema references, or else the name
\* <opID><tag>Body of exactly one type definition of the same call; the
\* unclassified ones are the only ones with an empty RefType.
C20_BodyReferenceIntegrity ==
    BodyOk =>
        \A i \in DOMAIN BodyDefs :
            LET b == BodyDefs[i]
                ct == b.ContentType
            IN /\ CustomType(b) <=> ~Recognized(ct)
               /\ Recognized(ct) =>
                     IF Declared[ct].Schema.Ref # NoRef
                     THEN b.Schema.RefType = <<"P","e","t">>
                     ELSE /\ b.Schema.RefType = BodyTypeName(ct)
                          /\ Cardinality(TypesNamed(BodyTypeName(ct))) = 1

(***************************************************************************)
(* main: old or new configuration style                                    *)
(***************************************************************************)
MaxFlags == 2

deprecatedFlagNames ==
    {"include-tags", "exclude-tags", "import-mapping", "exclude-schemas",
     "response-type-suffix", "alias-types"}
\* flags of the command line that are not deprecated
OtherFlagNames == {"package", "generate"}

\* the sets flag.Visit can walk over: the flags set on the command line
VisitedFlags ==
    {v \in SUBSET (deprecatedFlagNames \cup OtherFlagNames) : Cardinality(v) <= MaxFlags}

\* no -config: nothing is opened, read or parsed
NoConfigFile ==
    [given |-> FALSE, openErr |-> FALSE, decodeErr |-> FALSE, readErr |-> FALSE,
     oldErr |-> FALSE, newErr |-> FALSE]
\* -config: the file may fail to open or to read; what the strict parse as new
\* configuration accepts, the plain decoding as configuration accepts
ConfigFiles ==
    {NoConfigFile} \cup
    {f \in [given : {TRUE}, openErr : BOOLEAN, decodeErr : BOOLEAN, readErr : BOOLEAN,
             oldErr : BOOLEAN, newErr : BOOLEAN] : f.decodeErr => f.newErr}

CommandLines ==
    {c \in [flagOldConfigStyle : BOOLEAN, configFile : ConfigFiles,
             visited : VisitedFlags, mappingErr : BOOLEAN] :
        c.mappingErr => "import-mapping" \in c.visited}

\* what the two strict parses of the config file decide
Decided(style) == [exit |-> FALSE, style |-> style]
ParseExit == [exit |-> TRUE, style |-> NilPtr]

ConfigFileStyle_BothIsNew(oldErr, newErr) ==
    IF ~newErr THEN Decided(PtrTo(FALSE))
    ELSE IF ~oldErr /\ newErr THEN Decided(PtrTo(TRUE))
    ELSE ParseExit

ConfigFileStyle(oldErr, newErr) ==
    IF oldErr /\ ~newErr THEN Decided(PtrTo(FALSE))
    ELSE IF ~oldErr /\ newErr THEN Decided(PtrTo(TRUE))
    ELSE IF oldErr /\ newErr THEN ParseExit
    ELSE Decided(NilPtr)

\* flag.Visit over the flags that were set
hasDeprecatedFlag(visited) == \E f \in visited : f \in deprecatedFlagNames

\* configFromFlags: exits when the config file does not open or decode, or
\* the import mapping of the command line does not parse
configFromFlagsExits(c) ==
    \/ c.configFile.given /\ (c.configFile.openErr \/ c.configFile.decodeErr)
    \/ c.mappingErr

InitMain ==
    /\ mainIn \in CommandLines
    /\ mainPc = "start"
    /\ oldConfigStyle = NilPtr
    /\ styleSets = 0
    /\ styleRead = None
    /\ idIn = Idle /\ idOut = Idle
    /\ pd = Idle /\ pdStyle = Idle /\ pdExplode = Idle /\ pdFlags = Idle
    /\ respIn = Idle /\ respOut = Idle
    /\ DocIdle
    /\ BodyIdle

OtherVars == <<idVars, pdVars, respVars, docVars, bodyVars>>

\* var oldConfigStyle *bool; if flagOldConfigStyle { ... }
StyleFromFlag ==
    /\ mainPc = "start"
    /\ IF mainIn.flagOldConfigStyle
       THEN oldConfigStyle' = PtrTo(mainIn.flagOldConfigStyle) /\ styleSets' = styleSets + 1
       ELSE UNCHANGED <<oldConfigStyle, styleSets>>
    /\ mainPc' = "config"
    /\ UNCHANGED <<mainIn, styleRead, OtherVars>>

\* cfg := configFromFlags() and the default package name
CallConfigFromFlags ==
    /\ mainPc = "config"
    /\ mainPc' = IF configFromFlagsExits(mainIn) THEN "exit_config" ELSE "file"
    /\ UNCHANGED <<mainIn, oldConfigStyle, styleSets, styleRead, OtherVars>>

\* if oldConfigStyle == nil && (flagConfigFile != "") { ... }
StyleFromConfigFile ==
    /\ mainPc = "file"
    /\ IF oldConfigStyle = NilPtr /\ mainIn.configFile.given
       THEN IF mainIn.configFile.readErr
            THEN mainPc' = "exit_read" /\ UNCHANGED <<oldConfigStyle, styleSets>>
            ELSE LET d == ConfigFileStyle(mainIn.configFile.oldErr, mainIn.configFile.newErr)
                 IN IF d.exit
                    THEN mainPc' = "exit_parse" /\ UNCHANGED <<oldConfigStyle, styleSets>>
                    ELSE /\ mainPc' = "flags"
                         /\ IF d.style = NilPtr
                            THEN UNCHANGED <<oldConfigStyle, styleSets>>
                            ELSE oldConfigStyle' = d.style /\ styleSets' = styleSets + 1
       ELSE mainPc' = "flags" /\ UNCHANGED <<oldConfigStyle, styleSets>>
    /\ UNCHANGED <<mainIn, styleRead, OtherVars>>

\* if oldConfigStyle == nil { ... deprecated flags ... }
StyleFromDeprecatedFlags ==
    /\ mainPc = "flags"
    /\ IF oldConfigStyle = NilPtr
       THEN /\ oldConfigStyle' = PtrTo(hasDeprecatedFlag(mainIn.visited))
            /\ styleSets' = styleSets + 1
       ELSE UNCHANGED <<oldConfigStyle, styleSets>>
    /\ mainPc' = "use"
    /\ UNCHANGED <<mainIn, styleRead, OtherVars>>

\* if !*oldConfigStyle: the read of a nil pointer aborts
ReadStyle ==
    /\ mainPc = "use"
    /\ styleRead' = IF oldConfigStyle = NilPtr THEN PanicVal ELSE OkVal(oldConfigStyle.val)
    /\ mainPc' = "done"
    /\ UNCHANGED <<mainIn, oldConfigStyle, styleSets, OtherVars>>

NextMain ==
    \/ StyleFromFlag
    \/ CallConfigFromFlags
    \/ StyleFromConfigFile
    \/ StyleFromDeprecatedFlags
    \/ ReadStyle

SpecMain == InitMain /\ [][NextMain]_vars

\* the style the claim's order gives for a command line
StyleByOrder(c) ==
    IF c.flagOldConfigStyle THEN TRUE
    ELSE IF c.configFile.given /\ c.configFile.oldErr /\ ~c.configFile.newErr THEN FALSE
    ELSE IF c.configFile.given /\ ~c.configFile.oldErr /\ c.configFile.newErr THEN TRUE
    ELSE c.visited \cap deprecatedFlagNames # {}

NeitherParses(c) ==
    ~c.flagOldConfigStyle /\ c.configFile.given /\ c.configFile.oldErr /\ c.configFile.newErr

MainExited == mainPc \in {"exit_config", "exit_read", "exit_parse"}

====
